---- MODULE Spec2Model ----
(***************************************************************************)
(* ListenLater backend: the job registry (JobManager) and the pipeline     *)
(* JobManager.run_pipeline of backend/app/jobs.py, with its collaborators  *)
(* (XClient.get_liked_tweets, fetch_article, compose_podcast_script,       *)
(* create_episode / finalize_episode / get_episode, synthesize_speech)     *)
(* reduced to the outcomes the pipeline can observe.                       *)
(*                                                                         *)
(* Text that the code processes character by character (the environment    *)
(* value FALLBACK_SOURCE_URLS, tweet text, URLs, article content) is a     *)
(* sequence of one-character strings.  Fixed messages are TLA+ strings;    *)
(* the Japanese literals of the source are written in ASCII, with the      *)
(* source line given beside each.                                          *)
(***************************************************************************)
EXTENDS Integers, Sequences, FiniteSets, TLC

VARIABLES
    jobs,       \* JobManager.jobs: job id -> JobState
    task,       \* per job id: the locals and position of its run_pipeline task
    episodes,   \* the episodes table of db.py, row id = index
    environ,    \* os.environ["FALLBACK_SOURCE_URLS"], bound at its first read
    submissions, \* POST /api/jobs/create requests still to come
    call        \* the last direct call of a function or registry method

vars == <<jobs, task, episodes, environ, submissions, call>>

\* ------------------------------------------------------------------ bounds

\* Liked tweets returned by one get_liked_tweets call.
MaxLiked == 2
\* Characters of a short FALLBACK_SOURCE_URLS value.
MaxRawLen == 3
\* Number of URLs of the long FALLBACK_SOURCE_URLS value.
ManyUrls == 10
\* fetch_article calls of one job that may come back without usable content.
MaxFetchFaults == 2

\* Characters of a text handed to compact_text.
MaxTextLen == 4

\* --------------------------------------------------------------- optionals

\* Python None, and a present value.
None == <<>>
Some(v) == <<v>>

\* ------------------------------------------------------------------- text

\* The characters str.strip() removes and \s of re matches (str.isspace()).
\* Those without a TLA+ escape are written by their Python escape name: each
\* name stands for one character.
Whitespace ==
    {" ", "\n", "\t", "\r", "\f", "\\x0b", "\\x1c", "\\x1d", "\\x1e", "\\x1f",
     "\\x85", "\\xa0", "\\u1680", "\\u2000", "\\u2001", "\\u2002", "\\u2003",
     "\\u2004", "\\u2005", "\\u2006", "\\u2007", "\\u2008", "\\u2009",
     "\\u200a", "\\u2028", "\\u2029", "\\u202f", "\\u205f", "\\u3000"}

RECURSIVE LStrip(_)
LStrip(s) ==
    IF s # <<>> /\ Head(s) \in Whitespace THEN LStrip(Tail(s)) ELSE s

RECURSIVE RStrip(_)
RStrip(s) ==
    IF s # <<>> /\ s[Len(s)] \in Whitespace
    THEN RStrip(SubSeq(s, 1, Len(s) - 1))
    ELSE s

\* str.strip()
Strip(s) == RStrip(LStrip(s))

\* s[:n]
Take(s, n) == SubSeq(s, 1, IF Len(s) < n THEN Len(s) ELSE n)

\* re.sub(r"\s+", " ", value): every run of whitespace becomes one space.
\* The characters kept are those that do not continue a run.
CollapseWs(s) ==
    LET StartsRun(i) == ~(s[i] \in Whitespace /\ i > 1 /\ s[i - 1] \in Whitespace)
        kept == SelectSeq([i \in 1..Len(s) |-> i], StartsRun)
    IN  [k \in 1..Len(kept) |->
            IF s[kept[k]] \in Whitespace THEN " " ELSE s[kept[k]]]

\* compact_text(value, max_chars), utils.py:51-53
compact_text(value, max_chars) == Take(Strip(CollapseWs(value)), max_chars)

\* The separator class [\n,] of re.split(r"[\n,]+", raw), jobs.py:28.
Separators == {"\n", ","}

\* re.split(r"[\n,]+", raw) from position i: cur is the piece being read,
\* inrun says the previous character was a separator.
RECURSIVE SplitFrom(_, _, _, _)
SplitFrom(raw, i, cur, inrun) ==
    IF i > Len(raw) THEN <<cur>>
    ELSE IF raw[i] \in Separators
         THEN IF inrun
              THEN SplitFrom(raw, i + 1, cur, TRUE)
              ELSE <<cur>> \o SplitFrom(raw, i + 1, <<>>, TRUE)
         ELSE SplitFrom(raw, i + 1, Append(cur, raw[i]), FALSE)

ReSplit(raw) == SplitFrom(raw, 1, <<>>, FALSE)

\* [p.strip() for p in re.split(...) if p.strip()], jobs.py:28.
RECURSIVE StripNonEmpty(_)
StripNonEmpty(pieces) ==
    IF pieces = <<>> THEN <<>>
    ELSE LET p == Strip(Head(pieces))
         IN  (IF p # <<>> THEN <<p>> ELSE <<>>) \o StripNonEmpty(Tail(pieces))

Parts(raw) == StripNonEmpty(ReSplit(raw))

InSeq(x, s) == \E i \in 1..Len(s) : s[i] = x

\* The seen/out loop of jobs.py:29-35: keep the first occurrence of each part.
RECURSIVE DedupeInto(_, _)
DedupeInto(parts, out) ==
    IF parts = <<>> THEN out
    ELSE DedupeInto(Tail(parts),
                    IF InSeq(Head(parts), out) THEN out
                    ELSE Append(out, Head(parts)))

DedupeKeepAll(parts) == parts

Dedupe(parts) == DedupeInto(parts, <<>>)

\* _fallback_urls_from_env() for the environment value raw ("" when unset).
fallback_urls_from_env(raw) ==
    IF Strip(raw) = <<>> THEN <<>> ELSE Dedupe(Parts(raw))

\* No function or registry method has been called directly.
NoCall == [fn |-> "none"]

\* ---------------------------------------------------------------- registry

JobIds == {"j1", "j2"}

\* JobState(job_id=...), models.py:27-37 (job_id is the key, created_at is
\* not modelled).
NewJobState ==
    [status |-> "queued", progress |-> 0, message |-> "queued",
     result |-> None, error |-> None, failure_stage |-> None,
     events |-> <<>>]

\* JobManager.create_job with the registry emptied first.
JM_create_job_fresh_registry(reg, id) ==
    [i \in {id} |-> NewJobState]

\* JobManager.create_job (jobs.py:60-64): self.jobs[job_id] = state, where id
\* is the uuid4 drawn.
JM_create_job(reg, id) ==
    [i \in DOMAIN reg \cup {id} |-> IF i = id THEN NewJobState ELSE reg[i]]

\* JobManager.get (jobs.py:66-67)
JM_get(reg, id) == IF id \in DOMAIN reg THEN Some(reg[id]) ELSE None

\* The setattr loop of JobManager.update on one JobState.
Merge(job, kw) ==
    [k \in DOMAIN job |-> IF k \in DOMAIN kw THEN kw[k] ELSE job[k]]

\* JobManager.update that adds a job for an unknown id.
JM_update_upsert(reg, id, kw) ==
    [i \in DOMAIN reg \cup {id} |->
        Merge(IF i \in DOMAIN reg THEN reg[i] ELSE NewJobState,
              IF i = id THEN kw ELSE <<>>)]

\* JobManager.update: a no-op for an unknown id.
JM_update(reg, id, kw) ==
    IF id \notin DOMAIN reg THEN reg
    ELSE [reg EXCEPT ![id] = Merge(@, kw)]

\* The event dict of JobManager.add_event: "detail" only when given.
Event(stage, message, level, detail) ==
    IF detail = None
    THEN [stage |-> stage, level |-> level, message |-> message]
    ELSE [stage |-> stage, level |-> level, message |-> message,
          detail |-> detail[1]]

\* JobManager.add_event with insert(0, event) in place of append(event).
JM_add_event_prepend(reg, id, stage, message, level, detail) ==
    IF id \notin DOMAIN reg THEN reg
    ELSE [reg EXCEPT ![id].events =
              <<Event(stage, message, level, detail)>> \o @]

\* JobManager.add_event: a no-op for an unknown id.
JM_add_event(reg, id, stage, message, level, detail) ==
    IF id \notin DOMAIN reg THEN reg
    ELSE [reg EXCEPT ![id].events =
              Append(@, Event(stage, message, level, detail))]

\* JobManager.set_stage writing the cursor of every job of the registry.
JM_set_stage_every_job(reg, id, stage) ==
    [i \in DOMAIN reg |-> Merge(reg[i], [failure_stage |-> Some(stage)])]

\* JobManager.set_stage.
JM_set_stage(reg, id, stage) ==
    JM_update(reg, id, [failure_stage |-> Some(stage)])

\* The locals of a run_pipeline task before its first statement.  pc is the
\* position of the task, exc the exception bound to e at jobs.py:273,
\* escaped the exception that left run_pipeline, faults the number of
\* fetch_article results without usable content so far, calls the
\* collaborator calls made so far.
NewTask ==
    [pc |-> "start", liked |-> <<>>, work_items |-> <<>>,
     unique_urls |-> <<>>, materials |-> <<>>, skipped |-> <<>>,
     idx |-> 0, article |-> None, script |-> None, episode_id |-> 0,
     exc |-> None, escaped |-> None, fallback_urls |-> <<>>,
     work_materials |-> <<>>, fb_idx |-> 0, faults |-> 0, calls |-> <<>>]

\* ------------------------------------------------------- candidate provider

\* HTTP statuses of the liked_tweets response.
HttpStatuses == {200, 400, 401, 402, 403, 404, 500}

XApiAccessError(message, status_code) ==
    [cls |-> "XApiAccessError", status_code |-> status_code, msg |-> message]

OtherError(cls, message) == [cls |-> cls, msg |-> message]

\* resp.text of a response that is an error: no body, a short one, and one
\* longer than the 500 characters _raise_api_error keeps.
RECURSIVE RepeatStr(_, _)
RepeatStr(c, n) ==
    IF n = 0 THEN "" ELSE IF n = 1 THEN c
    ELSE RepeatStr(c, n \div 2) \o RepeatStr(c, n - n \div 2)

Bodies == {"", "oops", RepeatStr("x", 600)}

\* XClient._raise_api_error (x_client.py:63-80): the exception raised for a
\* response with this status and text, or None.
raise_api_error(status_code, context, body) ==
    IF status_code = 401
    THEN Some(XApiAccessError(
             context \o ": unauthorized (401). Check token type/scope.", 401))
    ELSE IF status_code = 403
    THEN Some(XApiAccessError(
             context \o ": forbidden (403). This endpoint requires OAuth user context and proper scopes.",
             403))
    ELSE IF status_code = 404
    THEN Some(XApiAccessError(
             context \o ": not found (404). Tweet may be deleted or private.", 404))
    ELSE IF status_code = 402
    THEN Some(XApiAccessError(
             context \o ": payment required (402). Your X API plan may not include this endpoint.",
             402))
    ELSE IF status_code >= 400
    THEN Some(XApiAccessError(
             context \o ": http " \o ToString(status_code) \o " body="
                 \o Take(body, 500),
             status_code))
    ELSE None

\* The count of POST /api/jobs/create (main.py:76: 1 to 100, 5 when absent),
\* handed to run_pipeline and read by get_liked_tweets(count=count) only.
Counts == {1, 5, 100}

\* requested_count = max(count, 1), x_client.py:127
requested_count(count) == IF count > 1 THEN count ELSE 1

\* api_max_results = min(max(requested_count, 5), 100), x_client.py:128
api_max_results(count) ==
    LET at_least == IF requested_count(count) > 5 THEN requested_count(count)
                    ELSE 5
    IN  IF at_least < 100 THEN at_least ELSE 100

\* The status handling of XClient.get_liked_tweets (x_client.py:140-147).
liked_tweets_error(status_code, count, body) ==
    IF status_code = 400
    THEN Some(XApiAccessError(
             "X liked_tweets endpoint returned 400 (Bad Request). "
                 \o "requested_count=" \o ToString(requested_count(count))
                 \o ", api_max_results=" \o ToString(api_max_results(count))
                 \o ", body=" \o Take(body, 300),
             400))
    ELSE raise_api_error(status_code, "get liked_tweets", body)

\* Failures of XClient() / get_liked_tweets that are not a response status:
\* no token (XClient._headers), /users/me failing (XClient._resolve_user_id)
\* and a transport error of requests.get.
ClientFailures ==
    {OtherError("RuntimeError", "X_BEARER_TOKEN or X_ACCESS_TOKEN is not set"),
     OtherError("RuntimeError", "Failed to resolve X user id from /users/me"),
     OtherError("HTTPError", "402 Client Error: Payment Required for url: /users/me"),
     OtherError("ConnectionError", "connection failed")}

\* The exceptions get_liked_tweets(count) can raise.
LikedFailures(count) ==
    {liked_tweets_error(r[1], count, r[2])[1] :
        r \in {q \in HttpStatuses \X Bodies :
                  liked_tweets_error(q[1], count, q[2]) # None}}
    \cup ClientFailures

\* The URL prefixes of this model that X_STATUS_URL_RE
\* (https?://(?:x|twitter)\.com/.+/status/(\d+), x_client.py:16) matches when
\* a numeric id follows.  A URL is a sequence of strings: a status URL is a
\* prefix and an id, any other URL a single string.
StatusPrefixes == {"https://x.com/u/status/", "https://x.com/i/web/status/"}

\* A status URL of the post tweet_id as it appears in a post's text.
StatusUrl(tweet_id) == <<"https://x.com/u/status/", tweet_id>>

\* XClient.extract_tweet_id_from_url (x_client.py:82-84): the id of a status
\* URL, or None.
extract_tweet_id_from_url(url) ==
    IF Len(url) = 2 /\ url[1] \in StatusPrefixes /\ url[2] # ""
    THEN Some(url[2]) ELSE None

\* Source URLs found in liked tweets: an article URL and the status URL of
\* the first post of the response.
Urls == {<<"a">>, StatusUrl("1")}

\* Tweet texts as returned by the API (raw, not stripped).
Texts == {<<" ">>, <<"t">>}

\* LikedTweet.urls: deduplicated by x_client.py:173.
UrlLists ==
    {<<>>} \cup {<<u>> : u \in Urls}
    \cup {p \in Urls \X Urls : p[1] # p[2]}

\* The "id" values of the n rows of a response: every row with an id of its
\* own, no row with an id (row.get("id", "") is then ""), and every row with
\* the same id.
RowIds(n) ==
    {[i \in 1..n |-> ToString(i)], [i \in 1..n |-> ""], [i \in 1..n |-> "1"]}

\* The rows of a liked_tweets response (payload["data"], x_client.py:149)
\* after the text and the urls of x_client.py:152-173 are worked out.
LikedLists ==
    UNION {{[i \in 1..n |-> [id |-> ids[i], text |-> rows[i].text,
                             urls |-> rows[i].urls]] :
               ids \in RowIds(n),
               rows \in [1..n -> [text : Texts, urls : UrlLists]]} :
           n \in 0..MaxLiked}

\* LikedTweet (models.py:8-13) as built at x_client.py:175-182, created_at
\* not modelled.
LikedTweet(row) ==
    [tweet_id |-> row.id, text |-> row.text, urls |-> row.urls]

\* get_liked_tweets(count) returning: out[:requested_count], x_client.py:183
get_liked_tweets(rows, count) ==
    Take([i \in 1..Len(rows) |-> LikedTweet(rows[i])], requested_count(count))

\* ------------------------------------------------------------- environment

RawAlphabet == {"a", "b", ",", " "}

\* token k of the long value: k times "a"
RECURSIVE Repeat(_, _)
Repeat(c, k) == IF k = 0 THEN <<>> ELSE <<c>> \o Repeat(c, k - 1)

\* "a\naa\naaa\n..." with n distinct URLs.
RECURSIVE ManyRaw(_)
ManyRaw(n) ==
    IF n = 0 THEN <<>>
    ELSE IF n = 1 THEN Repeat("a", 1)
    ELSE ManyRaw(n - 1) \o <<"\n">> \o Repeat("a", n)

\* Values of FALLBACK_SOURCE_URLS (os.getenv default "" when unset).
\* Values with a carriage return or a no-break space, which strip() removes
\* and the separator class [\n,] does not hold.
CrEnvs ==
    {<<"\r">>, <<"a", "\r", "\n", "b">>, <<"a", "\r", ",", "a">>,
     <<"a", ",", "\\xa0", "a">>}

RawEnvs ==
    UNION {[1..n -> RawAlphabet] : n \in 0..MaxRawLen}
        \cup {ManyRaw(ManyUrls)} \cup CrEnvs

\* os.getenv("FALLBACK_SOURCE_URLS", ""): the values a read can return.
EnvReads == IF environ = None THEN RawEnvs ELSE {environ[1]}


\* --------------------------------------------------------- source resolver

\* f"https://x.com/i/web/status/{t.tweet_id}" if t.tweet_id else "", jobs.py:115
TweetUrl(tweet_id) ==
    IF tweet_id = "" THEN <<>> ELSE <<"https://x.com/i/web/status/", tweet_id>>

\* tweet_url or f"x://tweet/{t.tweet_id}", jobs.py:136
TweetLocator(tweet_id) ==
    IF TweetUrl(tweet_id) # <<>> THEN TweetUrl(tweet_id)
    ELSE <<"x://tweet/", tweet_id>>

\* The work item of jobs.py:123-129.
UrlItem(u, tweet_text, tweet_url, tweet_id) ==
    [type |-> "url", url |-> u, tweet_text |-> tweet_text,
     tweet_url |-> tweet_url, tweet_id |-> tweet_id]

\* The work item of jobs.py:134-140.
TweetItem(tweet_text, tweet_id) ==
    [type |-> "tweet", url |-> TweetLocator(tweet_id),
     tweet_text |-> tweet_text, tweet_url |-> TweetUrl(tweet_id),
     tweet_id |-> tweet_id]

\* The loop of jobs.py:117-130 without the seen_urls test.
RECURSIVE ResolveUrls_no_seen(_, _, _)
ResolveUrls_no_seen(urls, t, acc) ==
    IF urls = <<>> THEN acc
    ELSE ResolveUrls_no_seen(Tail(urls), t,
             [acc EXCEPT
                 !.unique_urls = Append(@, Head(urls)),
                 !.work_items = Append(@,
                     UrlItem(Head(urls), Strip(t.text), TweetUrl(t.tweet_id),
                             t.tweet_id))])

\* for u in t.urls (jobs.py:117-130): acc holds work_items, unique_urls (the
\* members of seen_urls, in order) and tweet_only_candidates.
RECURSIVE ResolveUrls(_, _, _)
ResolveUrls(urls, t, acc) ==
    IF urls = <<>> THEN acc
    ELSE LET u == Head(urls)
         IN  ResolveUrls(Tail(urls), t,
                 IF InSeq(u, acc.unique_urls) THEN acc
                 ELSE [acc EXCEPT
                         !.unique_urls = Append(@, u),
                         !.work_items = Append(@,
                             UrlItem(u, Strip(t.text), TweetUrl(t.tweet_id),
                                     t.tweet_id))])

\* for t in liked (jobs.py:113-141).
RECURSIVE ResolveTweets(_, _)
ResolveTweets(liked, acc) ==
    IF liked = <<>> THEN acc
    ELSE LET t == Head(liked)
             tweet_text == Strip(t.text)
         IN  ResolveTweets(Tail(liked),
                 IF t.urls # <<>> THEN ResolveUrls(t.urls, t, acc)
                 ELSE IF tweet_text # <<>>
                 THEN [acc EXCEPT
                         !.tweet_only_candidates = @ + 1,
                         !.work_items = Append(@, TweetItem(tweet_text, t.tweet_id))]
                 ELSE acc)

\* jobs.py:108-141
resolve_sources(liked) ==
    ResolveTweets(liked, [work_items |-> <<>>, unique_urls |-> <<>>,
                          tweet_only_candidates |-> 0])

\* jobs.py:157: the static list as URL work items.
RECURSIVE StaticItems(_)
StaticItems(urls) ==
    IF urls = <<>> THEN <<>>
    ELSE <<UrlItem(Head(urls), <<>>, <<>>, "")>> \o StaticItems(Tail(urls))

\* ------------------------------------------------------------ fetch_article

\* ArticleResult (models.py:16-24) as fetch_article(url) returns it: a result
\* with content, a metadata result whose description is empty, and the
\* request_failed result of article_fetch.py:215-223.  The four characters of
\* the content stand for a body long enough for an extractor to accept it
\* (more than 200 characters, article_fetch.py:230).
ArticleOk(url) ==
    [url |-> url, final_url |-> url, title |-> <<"Title">>,
     content |-> <<"b", "o", "d", "y">>, method |-> "readability",
     ok |-> TRUE, error |-> None]

ArticleEmpty(url) ==
    [url |-> url, final_url |-> url, title |-> <<"Title">>,
     content |-> <<>>, method |-> "metadata_fallback",
     ok |-> TRUE, error |-> None]

ArticleFailed(url) ==
    [url |-> url, final_url |-> url, title |-> url,
     content |-> <<>>, method |-> "request_failed",
     ok |-> FALSE, error |-> Some("request_failed: timeout")]

FetchOutcomes(url) == {ArticleOk(url), ArticleEmpty(url), ArticleFailed(url)}

\* article.ok and (article.content or "").strip(), jobs.py:178 and :282
Usable(article) == article.ok /\ Strip(article.content) # <<>>

\* article.error or "content_too_short", jobs.py:211 and :294
SkipReason(article) ==
    IF article.error # None /\ article.error[1] # ""
    THEN article.error[1] ELSE "content_too_short"

\* jobs.py:180-187 and :284-291
ArticleMaterial(article, tweet_text) ==
    [kind |-> "article", title |-> article.title, url |-> article.final_url,
     tweet_text |-> tweet_text, content |-> article.content,
     method |-> article.method]

\* jobs.py:193-200; the title is "X投稿コメント" in the source.
CommentMaterial(url, tweet_text) ==
    [kind |-> "tweet_comment_fallback", title |-> <<"X post comment">>,
     url |-> url, tweet_text |-> tweet_text, content |-> tweet_text,
     method |-> "tweet_fallback"]

\* jobs.py:221-229; the title is f"X投稿 {tweet_id}" or "X投稿" in the source.
TweetMaterial(tweet_text, tweet_url, tweet_id) ==
    [kind |-> "tweet",
     title |-> IF tweet_id # "" THEN <<"X post ", tweet_id>> ELSE <<"X post">>,
     url |-> IF tweet_url # <<>> THEN tweet_url ELSE <<"x://tweet/", tweet_id>>,
     tweet_text |-> tweet_text, content |-> tweet_text,
     method |-> "tweet_text"]

\* A URL item without usable content and without companion text is skipped.
url_item_result_no_comment_fallback(item, article) ==
    IF Usable(article)
    THEN [material |-> Some(ArticleMaterial(article, item.tweet_text)),
          skipped |-> None, warning |-> None]
    ELSE [material |-> None,
          skipped |-> Some([url |-> item.url, reason |-> SkipReason(article)]),
          warning |-> None]

\* The three outcomes of a URL work item, jobs.py:178-212: what is appended
\* to materials, what to skipped, and the detail of the warning event.
url_item_result(item, article) ==
    IF Usable(article)
    THEN [material |-> Some(ArticleMaterial(article, item.tweet_text)),
          skipped |-> None, warning |-> None]
    ELSE IF item.tweet_text # <<>>
    THEN [material |-> Some(CommentMaterial(item.url, item.tweet_text)),
          skipped |-> None,
          warning |-> Some([url |-> item.url,
                            reason |-> IF article.error # None /\ article.error[1] # ""
                                       THEN article.error[1] ELSE "empty_content"])]
    ELSE [material |-> None,
          skipped |-> Some([url |-> item.url, reason |-> SkipReason(article)]),
          warning |-> None]

\* The outcomes of a tweet work item, jobs.py:214-230.
tweet_item_result(item) ==
    LET tweet_text == Strip(item.tweet_text)
        tweet_url == IF item.tweet_url # <<>> THEN item.tweet_url ELSE item.url
    IN  IF tweet_text = <<>>
        THEN [material |-> None,
              skipped |-> Some([url |-> IF tweet_url # <<>> THEN tweet_url
                                        ELSE <<"x://tweet/", item.tweet_id>>,
                                reason |-> "tweet_text_empty"]),
              warning |-> None]
        ELSE [material |-> Some(TweetMaterial(tweet_text, tweet_url, item.tweet_id)),
              skipped |-> None, warning |-> None]

\* ------------------------------------------------- binary64 arithmetic

\* A Python float that is not zero: m holds the 53 bits of the significand,
\* most significant first, and e the exponent of its last bit, so that the
\* value is m * 2^e.  Zero has all bits 0.
MantissaBits == 53

FloatZero == [m |-> [i \in 1..MantissaBits |-> 0], e |-> 0]

\* The integer a bit sequence writes.
RECURSIVE BitsToInt(_)
BitsToInt(bits) ==
    IF bits = <<>> THEN 0
    ELSE 2 * BitsToInt(SubSeq(bits, 1, Len(bits) - 1)) + bits[Len(bits)]

\* The bits of n > 0 without leading zeros; <<>> for 0.
RECURSIVE IntToBits(_)
IntToBits(n) == IF n = 0 THEN <<>> ELSE Append(IntToBits(n \div 2), n % 2)

\* Round to nearest, ties to even: the significand m at exponent e is kept
\* or raised by one unit in the last place; half says the dropped part is at
\* least half a unit, sticky that it is not exactly half.
RoundNearestEven(m, e, half, sticky) ==
    LET RECURSIVE Increment(_, _)
        Increment(bits, i) ==
            IF i = 0 THEN bits
            ELSE IF bits[i] = 0 THEN [bits EXCEPT ![i] = 1]
            ELSE Increment([bits EXCEPT ![i] = 0], i - 1)
        up == half /\ (sticky \/ m[Len(m)] = 1)
        carried == up /\ \A i \in 1..Len(m) : m[i] = 1
    IN  IF ~up THEN [m |-> m, e |-> e]
        ELSE IF carried
        THEN [m |-> [i \in 1..Len(m) |-> IF i = 1 THEN 1 ELSE 0], e |-> e + 1]
        ELSE [m |-> Increment(m, Len(m)), e |-> e]

\* a / b of two positive ints (true division, correctly rounded): the
\* operands are scaled until b <= a < 2b, then the quotient is developed bit
\* by bit.
float_div(a, b) ==
    LET RECURSIVE Scale(_, _, _)
        Scale(x, y, s) ==
            IF x < y THEN Scale(2 * x, y, s - 1)
            ELSE IF x >= 2 * y THEN Scale(x, 2 * y, s + 1)
            ELSE [x |-> x, y |-> y, s |-> s]
        RECURSIVE Develop(_, _, _)
        Develop(r, y, acc) ==
            IF Len(acc) = MantissaBits THEN [bits |-> acc, rem |-> r]
            ELSE IF 2 * r >= y THEN Develop(2 * r - y, y, Append(acc, 1))
            ELSE Develop(2 * r, y, Append(acc, 0))
        n == Scale(a, b, 0)
        q == Develop(n.x - n.y, n.y, <<1>>)
    IN  IF a = 0 THEN FloatZero
        ELSE RoundNearestEven(q.bits, n.s - (MantissaBits - 1),
                              2 * q.rem >= n.y, 2 * q.rem > n.y)

\* x * k of a float and a non-negative int small enough to be a float itself.
float_mul_int(x, k) ==
    LET RECURSIVE Times(_, _, _)
        Times(i, carry, acc) ==
            IF i = 0 THEN IntToBits(carry) \o acc
            ELSE Times(i - 1, (x.m[i] * k + carry) \div 2,
                       <<(x.m[i] * k + carry) % 2>> \o acc)
        p == Times(MantissaBits, 0, <<>>)
        extra == Len(p) - MantissaBits
        rest == SubSeq(p, MantissaBits + 1, Len(p))
    IN  IF k = 0 \/ x = FloatZero THEN FloatZero
        ELSE RoundNearestEven(SubSeq(p, 1, MantissaBits), x.e + extra,
                              rest # <<>> /\ rest[1] = 1,
                              \E i \in 2..Len(rest) : rest[i] = 1)

\* int(x) of a float that is not negative: the digits before the point.
float_int(x) ==
    IF x.e >= 0 THEN BitsToInt(x.m) * (2 ^ x.e)
    ELSE IF MantissaBits + x.e <= 0 THEN 0
    ELSE BitsToInt(SubSeq(x.m, 1, MantissaBits + x.e))

\* progress = 15 + int((idx / total) * 45), jobs.py:167
item_progress(idx, total) ==
    15 + float_int(float_mul_int(float_div(idx, total), 45))

\* item_progress for every position of every work list a job can have,
\* worked out once.
ItemProgress ==
    [total \in 1..(ManyUrls + MaxLiked) |->
        [idx \in 1..total |-> item_progress(idx, total)]]

\* ------------------------------------------------------------------ script

\* content[:1200], jobs.py:49
ExcerptChars == 1200

\* The three lines of one material in _fallback_script, jobs.py:45-51.  A
\* line is a sequence of strings; the source's Japanese labels are in ASCII.
MaterialLines(i, m) ==
    LET content == IF Strip(m.content) # <<>> THEN Strip(m.content)
                   ELSE Strip(m.tweet_text)
    IN  << <<"[material ", ToString(i), "]">> \o m.title,
           IF content # <<>> THEN Take(content, ExcerptChars)
           ELSE <<"The body could not be fully retrieved.">>,
           <<"source: ">> \o m.url,
           <<>> >>

RECURSIVE AllMaterialLines(_, _)
AllMaterialLines(materials, i) ==
    IF i > Len(materials) THEN <<>>
    ELSE MaterialLines(i, materials[i]) \o AllMaterialLines(materials, i + 1)

ScriptHeader ==
    << <<"Good morning. This is the commuter news digest.">>,
       <<"Today we take our time over liked posts and articles.">>,
       <<>> >>

ScriptFooter == <<"That was the commuter news digest.">>

\* _fallback_script(materials), jobs.py:38-53: the list of lines that
\* "\n".join turns into the script.
fallback_script(materials) ==
    ScriptHeader \o AllMaterialLines(materials, 1) \o <<ScriptFooter>>

\* What compose_podcast_script returns when the language model answers.
GeneratedScript == << <<"generated script">> >>

ComposeFailure == OtherError("RuntimeError", "OPENAI_API_KEY is not set")
StoreFailure == OtherError("OperationalError", "database is locked")

\* The exceptions synthesize_speech can raise: the RuntimeError of
\* tts._client (tts.py:9-13) and an error of the speech request of
\* tts.py:21-27.
SynthesisFailures ==
    {OtherError("RuntimeError", "OPENAI_API_KEY is not set"),
     OtherError("APIError", "speech synthesis failed")}

\* [m.get("url", "") for m in materials if m.get("url")], jobs.py:246
RECURSIVE MaterialUrls(_)
MaterialUrls(materials) ==
    IF materials = <<>> THEN <<>>
    ELSE (IF Head(materials).url # <<>> THEN <<Head(materials).url>> ELSE <<>>)
         \o MaterialUrls(Tail(materials))

\* list(dict.fromkeys(...)), jobs.py:246 and :300
source_urls_of(materials) == DedupeInto(MaterialUrls(materials), <<>>)

\* ------------------------------------------------------------------- store

\* create_episode, db.py:50-72: the new row (audio_path NULL).
EpisodeRow(script, source_urls, status, skipped) ==
    [script |-> script, audio_path |-> None, source_urls |-> source_urls,
     status |-> status, skipped |-> skipped]

\* finalize_episode with the WHERE clause of db.py:78 naming the first row.
finalize_episode_first_row(table, episode_id, audio_path, status) ==
    IF 1 \in 1..Len(table)
    THEN [table EXCEPT ![1].audio_path = Some(audio_path),
                       ![1].status = status]
    ELSE table

\* finalize_episode, db.py:75-80
finalize_episode(table, episode_id, audio_path, status) ==
    IF episode_id \in 1..Len(table)
    THEN [table EXCEPT ![episode_id].audio_path = Some(audio_path),
                       ![episode_id].status = status]
    ELSE table

\* get_episode, db.py:83-96 (created_at not modelled)
get_episode(table, episode_id) ==
    IF episode_id \notin 1..Len(table) THEN None
    ELSE LET row == table[episode_id]
         IN  Some([id |-> episode_id, script |-> row.script,
                   audio_path |-> IF row.audio_path = None THEN ""
                                  ELSE row.audio_path[1],
                   source_urls |-> row.source_urls, status |-> row.status,
                   skipped |-> row.skipped])

\* f"/static/audio/{episode_id}.mp3", jobs.py:254 and :306
RelAudioPath(episode_id) == "/static/audio/" \o ToString(episode_id) \o ".mp3"

\* --------------------------------------------------------------- pipeline

SetTask(j, kw) == [task EXCEPT ![j] = Merge(@, kw)]

Called(t, fn) == Append(t.calls, fn)

\* raise inside the try block of run_pipeline: control moves to the handler
\* of jobs.py:273.
Raise(j, e, calls) ==
    SetTask(j, [pc |-> "except", exc |-> Some(e), calls |-> calls])

\* raise inside the handler of jobs.py:273-324: the exception leaves
\* run_pipeline and ends the task.
Escape(j, e, calls) ==
    SetTask(j, [pc |-> "crashed", escaped |-> Some(e), calls |-> calls])

\* The keyword arguments of the update of jobs.py:100 without the status.
start_fields_no_status ==
    [progress |-> 5, message |-> "Fetching liked tweets"]

\* The keyword arguments of the update of jobs.py:100.
start_fields ==
    [status |-> "running", progress |-> 5, message |-> "Fetching liked tweets"]

\* POST /api/jobs/create (main.py:75-79): JobManager.create_job with a fresh
\* uuid4, then launch_pipeline.
CreateJob(id) ==
    /\ submissions > 0
    /\ id \notin DOMAIN jobs
    /\ jobs' = JM_create_job(jobs, id)
    /\ task' = [i \in DOMAIN task \cup {id} |->
                   IF i = id THEN NewTask ELSE task[i]]
    /\ submissions' = submissions - 1
    /\ UNCHANGED <<episodes, environ, call>>

\* jobs.py:98-100
Start(j) ==
    /\ task[j].pc = "start"
    /\ jobs' = JM_update(
                 JM_add_event(JM_set_stage(jobs, j, "fetch_likes"),
                              j, "fetch_likes", "start", "info", None),
                 j, start_fields)
    /\ task' = SetTask(j, [pc |-> "fetch_likes"])
    /\ UNCHANGED <<episodes, environ, submissions, call>>

\* jobs.py:101-106, get_liked_tweets returning rows
FetchLikesOk(j) ==
    /\ task[j].pc = "fetch_likes"
    /\ \E rows \in LikedLists, count \in Counts :
         LET liked == get_liked_tweets(rows, count)
         IN  /\ jobs' = JM_update(
                          JM_set_stage(
                            JM_add_event(jobs, j, "fetch_likes", "done", "info",
                                         Some([liked_count |-> Len(liked)])),
                            j, "extract_sources"),
                          j, [progress |-> 15,
                              message |-> "Extracting source materials"])
             /\ task' = SetTask(j, [pc |-> "extract_sources", liked |-> liked,
                                    calls |-> Called(task[j], "get_liked_tweets")])
    /\ UNCHANGED <<episodes, environ, submissions, call>>

\* jobs.py:101-102, XClient() or get_liked_tweets raising
FetchLikesFail(j) ==
    /\ task[j].pc = "fetch_likes"
    /\ \E count \in Counts : \E e \in LikedFailures(count) :
         task' = Raise(j, e, Called(task[j], "get_liked_tweets"))
    /\ UNCHANGED <<jobs, episodes, environ, submissions, call>>

\* jobs.py:108-161
ExtractSources(j) ==
    /\ task[j].pc = "extract_sources"
    /\ LET r == resolve_sources(task[j].liked)
           reg == JM_add_event(jobs, j, "extract_sources", "done", "info",
                      Some([url_count |-> Len(r.unique_urls),
                            tweet_only_candidates |-> r.tweet_only_candidates,
                            work_item_count |-> Len(r.work_items)]))
       IN  IF r.work_items # <<>>
           THEN /\ jobs' = reg
                /\ task' = SetTask(j, [pc |-> "items", idx |-> 0,
                                       work_items |-> r.work_items,
                                       unique_urls |-> r.unique_urls,
                                       materials |-> <<>>, skipped |-> <<>>])
                /\ UNCHANGED environ
           ELSE \E raw \in EnvReads :
                  LET fallback_urls == fallback_urls_from_env(raw)
                  IN  /\ environ' = Some(raw)
                      /\ IF fallback_urls # <<>>
                         THEN /\ jobs' = JM_update(reg, j,
                                   [progress |-> 20,
                                    message |-> "No processable likes found. Using FALLBACK_SOURCE_URLS"])
                              /\ task' = SetTask(j,
                                   [pc |-> "items", idx |-> 0,
                                    work_items |-> StaticItems(fallback_urls),
                                    unique_urls |-> fallback_urls,
                                    fallback_urls |-> fallback_urls,
                                    materials |-> <<>>, skipped |-> <<>>])
                         ELSE /\ jobs' = reg
                              /\ task' = Raise(j,
                                   OtherError("RuntimeError",
                                              "No processable liked tweets found"),
                                   task[j].calls)
    /\ UNCHANGED <<episodes, submissions, call>>

\* The per-item loop without the skipped.append of jobs.py:211 and :219.
WithResult_no_skipped(t, r) ==
    [materials |-> IF r.material # None THEN Append(t.materials, r.material[1])
                   ELSE t.materials,
     skipped |-> t.skipped]

\* What one work item adds to the locals materials and skipped.
WithResult(t, r) ==
    [materials |-> IF r.material # None THEN Append(t.materials, r.material[1])
                   ELSE t.materials,
     skipped |-> IF r.skipped # None THEN Append(t.skipped, r.skipped[1])
                 ELSE t.skipped]

\* The head of one iteration of the loop of jobs.py:166 over a "url" item
\* (jobs.py:167-175): the registry writes made before fetch_article is
\* called.
UrlItemBegin(j) ==
    LET t == task[j]
        total == Len(t.work_items)
        idx == t.idx + 1
        item == t.work_items[idx]
    IN  /\ t.pc = "items"
        /\ t.idx < total
        /\ item.type = "url"
        /\ jobs' = JM_update(JM_set_stage(jobs, j, "fetch_article"), j,
                       [progress |-> ItemProgress[total][idx],
                        message |-> "Fetching source " \o ToString(idx)
                                    \o "/" \o ToString(total)])
        /\ task' = SetTask(j, [pc |-> "fetch_article"])
        /\ UNCHANGED <<episodes, environ, submissions, call>>

\* The rest of the iteration (jobs.py:176-212): fetch_article returns and
\* the item becomes a material or a skipped entry.  Results without usable
\* content are counted, and a job takes at most MaxFetchFaults of them.
UrlItemStep(j) ==
    LET t == task[j]
        idx == t.idx + 1
        item == t.work_items[idx]
    IN  /\ t.pc = "fetch_article"
        /\ \E article \in FetchOutcomes(item.url) :
             LET r == url_item_result(item, article)
             IN  /\ Usable(article) \/ t.faults < MaxFetchFaults
                 /\ jobs' = IF r.warning # None
                            THEN JM_add_event(jobs, j, "fetch_article",
                                     "article_failed_tweet_fallback_used",
                                     "warning", r.warning)
                            ELSE jobs
                 /\ task' = SetTask(j,
                      [pc |-> "items", idx |-> idx, article |-> Some(article),
                       faults |-> IF Usable(article) THEN t.faults
                                  ELSE t.faults + 1,
                       calls |-> Called(t, "fetch_article"),
                       materials |-> WithResult(t, r).materials,
                       skipped |-> WithResult(t, r).skipped])
        /\ UNCHANGED <<episodes, environ, submissions, call>>

\* One iteration of the loop of jobs.py:166 over a "tweet" item
\* (jobs.py:214-230).
TweetItemStep(j) ==
    LET t == task[j]
        idx == t.idx + 1
        item == t.work_items[idx]
    IN  /\ t.pc = "items"
        /\ t.idx < Len(t.work_items)
        /\ item.type = "tweet"
        /\ task' = SetTask(j,
             [idx |-> idx,
              materials |-> WithResult(t, tweet_item_result(item)).materials,
              skipped |-> WithResult(t, tweet_item_result(item)).skipped])
        /\ UNCHANGED <<jobs, episodes, environ, submissions, call>>

\* The test of jobs.py:232 never finding the list empty.
materials_missing_never(materials) == FALSE

\* if not materials, jobs.py:232
materials_missing(materials) == materials = <<>>

\* jobs.py:232-236, after the last work item
EndItems(j) ==
    LET t == task[j]
    IN  /\ t.pc = "items"
        /\ t.idx = Len(t.work_items)
        /\ IF materials_missing(t.materials)
           THEN /\ task' = Raise(j,
                     OtherError("RuntimeError",
                                "No rich source materials could be extracted"),
                     t.calls)
                /\ UNCHANGED jobs
           ELSE /\ jobs' = JM_update(JM_set_stage(jobs, j, "compose_script"), j,
                               [progress |-> 70,
                                message |-> "Composing podcast script"])
                /\ task' = SetTask(j, [pc |-> "compose"])
        /\ UNCHANGED <<episodes, environ, submissions, call>>

\* jobs.py:244-245
EnterSave(reg, j) ==
    JM_update(JM_set_stage(reg, j, "save_episode"), j,
              [progress |-> 80, message |-> "Saving episode draft"])

\* jobs.py:237-245, compose_podcast_script returning a script
ComposeOk(j) ==
    LET t == task[j]
    IN  /\ t.pc = "compose"
        /\ jobs' = EnterSave(jobs, j)
        /\ task' = SetTask(j, [pc |-> "save_episode",
                               script |-> Some(GeneratedScript),
                               calls |-> Called(t, "compose_podcast_script")])
        /\ UNCHANGED <<episodes, environ, submissions, call>>

\* jobs.py:237-245, compose_podcast_script raising
ComposeFail(j) ==
    LET t == task[j]
    IN  /\ t.pc = "compose"
        /\ jobs' = EnterSave(
                     JM_add_event(jobs, j, "compose_script",
                                  "compose_failed_fallback_used", "warning",
                                  Some([reason |-> ComposeFailure.msg])),
                     j)
        /\ task' = SetTask(j, [pc |-> "save_episode",
                               script |-> Some(fallback_script(t.materials)),
                               calls |-> Called(t, "compose_podcast_script")])
        /\ UNCHANGED <<episodes, environ, submissions, call>>

\* jobs.py:246-250, create_episode returning the row id
SaveOk(j) ==
    LET t == task[j]
    IN  /\ t.pc = "save_episode"
        /\ episodes' = Append(episodes,
               EpisodeRow(t.script[1], source_urls_of(t.materials),
                          "processing", t.skipped))
        /\ jobs' = JM_update(JM_set_stage(jobs, j, "tts"), j,
                       [progress |-> 90, message |-> "Generating TTS audio"])
        /\ task' = SetTask(j, [pc |-> "tts", episode_id |-> Len(episodes) + 1,
                               calls |-> Called(t, "create_episode")])
        /\ UNCHANGED <<environ, submissions, call>>

\* jobs.py:247, create_episode raising
SaveFail(j) ==
    /\ task[j].pc = "save_episode"
    /\ task' = Raise(j, StoreFailure, Called(task[j], "create_episode"))
    /\ UNCHANGED <<jobs, episodes, environ, submissions, call>>

\* jobs.py:251-252, synthesize_speech returning
TtsOk(j) ==
    /\ task[j].pc = "tts"
    /\ task' = SetTask(j, [pc |-> "finalize",
                           calls |-> Called(task[j], "synthesize_speech")])
    /\ UNCHANGED <<jobs, episodes, environ, submissions, call>>

\* jobs.py:252, synthesize_speech raising
TtsFail(j) ==
    /\ task[j].pc = "tts"
    /\ \E e \in SynthesisFailures :
         task' = Raise(j, e, Called(task[j], "synthesize_speech"))
    /\ UNCHANGED <<jobs, episodes, environ, submissions, call>>

\* The keyword arguments of the update of jobs.py:258-271.
done_fields(episode, materials, skipped, liked_count, url_count) ==
    [status |-> "done", progress |-> 100, message |-> "Completed",
     result |-> Some([episode |-> episode, materials |-> materials,
                      skipped |-> skipped, liked_count |-> liked_count,
                      url_count |-> url_count]),
     failure_stage |-> None]

\* jobs.py:254-255, finalize_episode returning: the row is committed
FinalizeOk(j) ==
    LET t == task[j]
    IN  /\ t.pc = "finalize"
        /\ episodes' = finalize_episode(episodes, t.episode_id,
                                        RelAudioPath(t.episode_id), "done")
        /\ task' = SetTask(j, [pc |-> "get_episode",
                               calls |-> Called(t, "finalize_episode")])
        /\ UNCHANGED <<jobs, environ, submissions, call>>

\* jobs.py:256-272, get_episode returning the row
GetEpisodeOk(j) ==
    LET t == task[j]
    IN  /\ t.pc = "get_episode"
        /\ jobs' = JM_add_event(
                     JM_update(jobs, j,
                         done_fields(get_episode(episodes, t.episode_id),
                                     t.materials, t.skipped, Len(t.liked),
                                     Len(t.unique_urls))),
                     j, "completed", "job_done", "info",
                     Some([episode_id |-> t.episode_id]))
        /\ task' = SetTask(j, [pc |-> "returned",
                               calls |-> Called(t, "get_episode")])
        /\ UNCHANGED <<episodes, environ, submissions, call>>

\* jobs.py:256, get_episode raising after the row was committed
GetEpisodeFail(j) ==
    /\ task[j].pc = "get_episode"
    /\ task' = Raise(j, StoreFailure, Called(task[j], "get_episode"))
    /\ UNCHANGED <<jobs, episodes, environ, submissions, call>>

\* jobs.py:255, finalize_episode raising
FinalizeFail(j) ==
    /\ task[j].pc = "finalize"
    /\ task' = Raise(j, StoreFailure, Called(task[j], "finalize_episode"))
    /\ UNCHANGED <<jobs, episodes, environ, submissions, call>>

\* ---------------------------------------------------------------- handler

\* The test of jobs.py:274 without the status code.
is_402_any_access_error(e) == e.cls = "XApiAccessError"

\* isinstance(e, XApiAccessError) and getattr(e, "status_code", None) == 402,
\* jobs.py:274
is_402(e) == e.cls = "XApiAccessError" /\ e.status_code = 402

\* The keyword arguments of the update of jobs.py:330 without the error.
fail_fields_no_error(e) ==
    [status |-> "error", progress |-> 100, message |-> "Failed"]

\* The keyword arguments of the update of jobs.py:330.
fail_fields(e) ==
    [status |-> "error", progress |-> 100, message |-> "Failed",
     error |-> Some(e.msg)]

\* jobs.py:328-329 with the stage cursor never read.
StageAlwaysUnknown(reg, id) == "unknown"

\* current_stage or "unknown", jobs.py:328-329
StageOrUnknown(reg, id) ==
    IF id \in DOMAIN reg /\ reg[id].failure_stage # None
       /\ reg[id].failure_stage[1] # ""
    THEN reg[id].failure_stage[1] ELSE "unknown"

\* jobs.py:326-330
report_failure(reg, id, e) ==
    JM_update(
      JM_add_event(reg, id, StageOrUnknown(reg, id), "job_failed", "error",
                   Some([error |-> e.msg])),
      id, fail_fields(e))

\* jobs.py:273-279 and :326-330: the handler up to its first fetch, or to the
\* failure report.
HandleException(j) ==
    LET t == task[j]
        e == t.exc[1]
    IN  /\ t.pc = "except"
        /\ IF is_402(e)
           THEN \E raw \in EnvReads :
                  LET fallback_urls == fallback_urls_from_env(raw)
                  IN  /\ environ' = Some(raw)
                      /\ IF fallback_urls # <<>>
                         THEN /\ jobs' = JM_update(jobs, j,
                                   [status |-> "running", progress |-> 20,
                                    message |-> "X liked_tweets unavailable. Using FALLBACK_SOURCE_URLS"])
                              /\ task' = SetTask(j,
                                   [pc |-> "fb_items", fb_idx |-> 0,
                                    fallback_urls |-> fallback_urls,
                                    work_materials |-> <<>>, skipped |-> <<>>])
                         ELSE /\ jobs' = report_failure(jobs, j, e)
                              /\ task' = SetTask(j, [pc |-> "returned"])
           ELSE /\ jobs' = report_failure(jobs, j, e)
                /\ task' = SetTask(j, [pc |-> "returned"])
                /\ UNCHANGED environ
        /\ UNCHANGED <<episodes, submissions, call>>

\* One iteration of the loop of jobs.py:280-294, fetch_article included.
FbItemStep(j) ==
    LET t == task[j]
        u == t.fallback_urls[t.fb_idx + 1]
    IN  /\ t.pc = "fb_items"
        /\ t.fb_idx < Len(t.fallback_urls)
        /\ \E article \in FetchOutcomes(u) :
             /\ Usable(article) \/ t.faults < MaxFetchFaults
             /\ task' = SetTask(j,
                  [fb_idx |-> t.fb_idx + 1, article |-> Some(article),
                   faults |-> IF Usable(article) THEN t.faults
                              ELSE t.faults + 1,
                   calls |-> Called(t, "fetch_article"),
                   work_materials |->
                       IF Usable(article)
                       THEN Append(t.work_materials,
                                   ArticleMaterial(article, <<>>))
                       ELSE t.work_materials,
                   skipped |->
                       IF Usable(article) THEN t.skipped
                       ELSE Append(t.skipped,
                                   [url |-> u, reason |-> SkipReason(article)])])
        /\ UNCHANGED <<jobs, episodes, environ, submissions, call>>

\* The loop of jobs.py:280 is over and work_materials is not empty.
FbReady(t) ==
    /\ t.pc = "fb_items"
    /\ t.fb_idx = Len(t.fallback_urls)
    /\ t.work_materials # <<>>

\* jobs.py:296 finding work_materials empty, then :326-330
FbNoMaterials(j) ==
    LET t == task[j]
    IN  /\ t.pc = "fb_items"
        /\ t.fb_idx = Len(t.fallback_urls)
        /\ t.work_materials = <<>>
        /\ jobs' = report_failure(jobs, j, t.exc[1])
        /\ task' = SetTask(j, [pc |-> "returned"])
        /\ UNCHANGED <<episodes, environ, submissions, call>>

\* jobs.py:296-297, compose_podcast_script returning a script
FbComposeOk(j) ==
    /\ FbReady(task[j])
    /\ task' = SetTask(j, [pc |-> "fb_save", script |-> Some(GeneratedScript),
                           calls |-> Called(task[j], "compose_podcast_script")])
    /\ UNCHANGED <<jobs, episodes, environ, submissions, call>>

\* jobs.py:297, compose_podcast_script raising inside the handler
FbComposeFail(j) ==
    /\ FbReady(task[j])
    /\ task' = Escape(j, ComposeFailure,
                      Called(task[j], "compose_podcast_script"))
    /\ UNCHANGED <<jobs, episodes, environ, submissions, call>>

\* jobs.py:298-303, create_episode returning the row id
FbSaveOk(j) ==
    LET t == task[j]
    IN  /\ t.pc = "fb_save"
        /\ episodes' = Append(episodes,
               EpisodeRow(t.script[1], source_urls_of(t.work_materials),
                          "processing", t.skipped))
        /\ task' = SetTask(j, [pc |-> "fb_tts",
                               episode_id |-> Len(episodes) + 1,
                               calls |-> Called(t, "create_episode")])
        /\ UNCHANGED <<jobs, environ, submissions, call>>

\* jobs.py:298, create_episode raising inside the handler
FbSaveFail(j) ==
    /\ task[j].pc = "fb_save"
    /\ task' = Escape(j, StoreFailure, Called(task[j], "create_episode"))
    /\ UNCHANGED <<jobs, episodes, environ, submissions, call>>

\* jobs.py:304-305, synthesize_speech returning
FbTtsOk(j) ==
    /\ task[j].pc = "fb_tts"
    /\ task' = SetTask(j, [pc |-> "fb_finalize",
                           calls |-> Called(task[j], "synthesize_speech")])
    /\ UNCHANGED <<jobs, episodes, environ, submissions, call>>

\* jobs.py:305, synthesize_speech raising inside the handler
FbTtsFail(j) ==
    /\ task[j].pc = "fb_tts"
    /\ \E e \in SynthesisFailures :
         task' = Escape(j, e, Called(task[j], "synthesize_speech"))
    /\ UNCHANGED <<jobs, episodes, environ, submissions, call>>

\* The keyword arguments of the update of jobs.py:309-323.
fb_done_fields(episode, work_materials, skipped, url_count) ==
    [status |-> "done", progress |-> 100,
     message |-> "Completed with fallback URLs",
     result |-> Some([episode |-> episode, materials |-> work_materials,
                      skipped |-> skipped, liked_count |-> 0,
                      url_count |-> url_count,
                      note |-> "X liked_tweets returned 402. Used FALLBACK_SOURCE_URLS."]),
     failure_stage |-> None]

\* jobs.py:306-307, finalize_episode returning: the row is committed
FbFinalizeOk(j) ==
    LET t == task[j]
    IN  /\ t.pc = "fb_finalize"
        /\ episodes' = finalize_episode(episodes, t.episode_id,
                                        RelAudioPath(t.episode_id), "done")
        /\ task' = SetTask(j, [pc |-> "fb_get_episode",
                               calls |-> Called(t, "finalize_episode")])
        /\ UNCHANGED <<jobs, environ, submissions, call>>

\* jobs.py:308-324, get_episode returning the row
FbGetEpisodeOk(j) ==
    LET t == task[j]
    IN  /\ t.pc = "fb_get_episode"
        /\ jobs' = JM_update(jobs, j,
                       fb_done_fields(get_episode(episodes, t.episode_id),
                                      t.work_materials, t.skipped,
                                      Len(t.fallback_urls)))
        /\ task' = SetTask(j, [pc |-> "returned",
                               calls |-> Called(t, "get_episode")])
        /\ UNCHANGED <<episodes, environ, submissions, call>>

\* jobs.py:308, get_episode raising inside the handler after the row was
\* committed
FbGetEpisodeFail(j) ==
    /\ task[j].pc = "fb_get_episode"
    /\ task' = Escape(j, StoreFailure, Called(task[j], "get_episode"))
    /\ UNCHANGED <<jobs, episodes, environ, submissions, call>>

\* jobs.py:307, finalize_episode raising inside the handler
FbFinalizeFail(j) ==
    /\ task[j].pc = "fb_finalize"
    /\ task' = Escape(j, StoreFailure, Called(task[j], "finalize_episode"))
    /\ UNCHANGED <<jobs, episodes, environ, submissions, call>>

\* ----------------------------------------------------------- specification

\* One step of the run_pipeline task of job j.
Pipeline(j) ==
    \/ Start(j)
    \/ FetchLikesOk(j)
    \/ FetchLikesFail(j)
    \/ ExtractSources(j)
    \/ UrlItemBegin(j)
    \/ UrlItemStep(j)
    \/ TweetItemStep(j)
    \/ EndItems(j)
    \/ ComposeOk(j)
    \/ ComposeFail(j)
    \/ SaveOk(j)
    \/ SaveFail(j)
    \/ TtsOk(j)
    \/ TtsFail(j)
    \/ FinalizeOk(j)
    \/ FinalizeFail(j)
    \/ GetEpisodeOk(j)
    \/ GetEpisodeFail(j)
    \/ HandleException(j)
    \/ FbItemStep(j)
    \/ FbNoMaterials(j)
    \/ FbComposeOk(j)
    \/ FbComposeFail(j)
    \/ FbSaveOk(j)
    \/ FbSaveFail(j)
    \/ FbTtsOk(j)
    \/ FbTtsFail(j)
    \/ FbFinalizeOk(j)
    \/ FbFinalizeFail(j)
    \/ FbGetEpisodeOk(j)
    \/ FbGetEpisodeFail(j)

Init ==
    /\ jobs = [i \in {} |-> NewJobState]
    /\ task = [i \in {} |-> NewTask]
    /\ episodes = <<>>
    /\ environ = None
    /\ submissions = 1
    /\ call = NoCall

Next ==
    \/ \E id \in JobIds : CreateJob(id)
    \/ \E j \in DOMAIN task : Start(j)
    \/ \E j \in DOMAIN task : FetchLikesOk(j)
    \/ \E j \in DOMAIN task : FetchLikesFail(j)
    \/ \E j \in DOMAIN task : ExtractSources(j)
    \/ \E j \in DOMAIN task : UrlItemBegin(j)
    \/ \E j \in DOMAIN task : UrlItemStep(j)
    \/ \E j \in DOMAIN task : TweetItemStep(j)
    \/ \E j \in DOMAIN task : EndItems(j)
    \/ \E j \in DOMAIN task : ComposeOk(j)
    \/ \E j \in DOMAIN task : ComposeFail(j)
    \/ \E j \in DOMAIN task : SaveOk(j)
    \/ \E j \in DOMAIN task : SaveFail(j)
    \/ \E j \in DOMAIN task : TtsOk(j)
    \/ \E j \in DOMAIN task : TtsFail(j)
    \/ \E j \in DOMAIN task : FinalizeOk(j)
    \/ \E j \in DOMAIN task : FinalizeFail(j)
    \/ \E j \in DOMAIN task : GetEpisodeOk(j)
    \/ \E j \in DOMAIN task : GetEpisodeFail(j)
    \/ \E j \in DOMAIN task : HandleException(j)
    \/ \E j \in DOMAIN task : FbItemStep(j)
    \/ \E j \in DOMAIN task : FbNoMaterials(j)
    \/ \E j \in DOMAIN task : FbComposeOk(j)
    \/ \E j \in DOMAIN task : FbComposeFail(j)
    \/ \E j \in DOMAIN task : FbSaveOk(j)
    \/ \E j \in DOMAIN task : FbSaveFail(j)
    \/ \E j \in DOMAIN task : FbTtsOk(j)
    \/ \E j \in DOMAIN task : FbTtsFail(j)
    \/ \E j \in DOMAIN task : FbFinalizeOk(j)
    \/ \E j \in DOMAIN task : FbFinalizeFail(j)
    \/ \E j \in DOMAIN task : FbGetEpisodeOk(j)
    \/ \E j \in DOMAIN task : FbGetEpisodeFail(j)

Spec == Init /\ [][Next]_vars

\* The event loop runs every created task, and every call of a task returns
\* or raises.
FairSpec == Spec /\ \A j \in JobIds : WF_vars(j \in DOMAIN task /\ Pipeline(j))

\* ------------------------------------------------------ two jobs at a time

\* Two POST /api/jobs/create requests: two run_pipeline tasks on the one
\* job_manager of jobs.py:333, their steps interleaved in any order.  Each
\* get_liked_tweets response holds at most one post, with text "t" and at
\* most the URL "a", and FALLBACK_SOURCE_URLS is unset, empty or "a".
PairInputs ==
    /\ environ \in {None, Some(<<>>), Some(<<"a">>)}
    /\ \A j \in DOMAIN task :
          /\ Len(task[j].liked) <= 1
          /\ \A p \in 1..Len(task[j].liked) :
                 /\ task[j].liked[p].text = <<"t">>
                 /\ task[j].liked[p].urls \in {<<>>, << <<"a">> >>}

PairInit ==
    /\ jobs = [i \in {} |-> NewJobState]
    /\ task = [i \in {} |-> NewTask]
    /\ episodes = <<>>
    /\ environ = None
    /\ submissions = Cardinality(JobIds)
    /\ call = NoCall

PairNext ==
    /\ Next
    /\ PairInputs'

PairSpec == PairInit /\ [][PairNext]_vars

\* ---------------------------------------------------- a poll during a run

\* run_pipeline holds no await (jobs.py:96-330): the task that
\* launch_pipeline creates (jobs.py:336-337) runs on the event loop from its
\* first statement to its last without giving the loop back, and the loop
\* starts the tasks in the order of their creation.  GET /api/jobs/{job_id}
\* is a plain def (main.py:82-87): the loop hands it to a worker thread, and
\* it can do so only between two callbacks, while it runs no pipeline.  A
\* task that create_task has queued and the loop has not started yet does
\* not hold the loop: a GET handler that was ready before it is served
\* first.  The id of a job reaches a client in the response of create_job
\* (main.py:79), after create_task queued the job's own pipeline, so a poll
\* of a job is handed over only once that pipeline has returned.  Once the
\* thread runs, its field reads interleave in any order with whatever the
\* loop does next, the pipeline of a job created later included.
\*
\* Every write run_pipeline makes to a job (the setattr of set_stage, the
\* events.append of add_event, each setattr of update) and every field read
\* of asdict is a step of its own.  The run of a job is the run over a liked
\* list of one post with the id "1", the text "t" and no URL, requested
\* with count 5 while FALLBACK_SOURCE_URLS is not set.  task[j].pc is the
\* line of jobs.py the pipeline of job j executes next (98 before its first
\* statement, 0 once run_pipeline has returned), task[j].kw the keyword
\* arguments of the update in progress and task[j].pending the keywords not
\* yet assigned.  submissions counts the POST requests still to come.

\* kwargs.items() of an update: the keywords in the order the call sites of
\* run_pipeline write them.
Keywords(kw) ==
    SelectSeq(<<"status", "progress", "message", "result", "error",
                "failure_stage">>, LAMBDA k : k \in DOMAIN kw)

\* The fields asdict copies, in the order of models.py:28-37 (job_id and
\* created_at not modelled).
DataclassFields ==
    <<"status", "progress", "message", "result", "error", "failure_stage",
      "events">>

\* count of main.py:76 (the default).
PollCount == 5

\* liked of jobs.py:102
PollLiked ==
    get_liked_tweets(<<[id |-> "1", text |-> <<"t">>, urls |-> <<>>]>>,
                     PollCount)

\* work_items, unique_urls and tweet_only_candidates of jobs.py:108-141
PollSources == resolve_sources(PollLiked)

\* materials and skipped after the loop of jobs.py:166-230: the only work
\* item is a tweet item, for which the loop writes nothing to the job.
PollLoop ==
    WithResult([materials |-> <<>>, skipped |-> <<>>],
               tweet_item_result(PollSources.work_items[1]))

\* The statements of run_pipeline that write to the job or call a
\* collaborator, by their line of jobs.py, as this run executes them, each
\* with the line that follows it.  The statements between them change locals
\* only.
PollLine(j, line) ==
    LET t == task[j]
    IN  CASE line = 98 ->
               [op |-> "set_stage", stage |-> "fetch_likes", next |-> 99]
          [] line = 99 ->
               [op |-> "add_event", stage |-> "fetch_likes",
                message |-> "start", level |-> "info", detail |-> None,
                next |-> 100]
          [] line = 100 ->
               [op |-> "update", kw |-> start_fields, next |-> 101]
          [] line = 101 ->
               [op |-> "call", fn |-> "get_liked_tweets", next |-> 103]
          [] line = 103 ->
               [op |-> "add_event", stage |-> "fetch_likes",
                message |-> "done", level |-> "info",
                detail |-> Some([liked_count |-> Len(PollLiked)]),
                next |-> 105]
          [] line = 105 ->
               [op |-> "set_stage", stage |-> "extract_sources", next |-> 106]
          [] line = 106 ->
               [op |-> "update",
                kw |-> [progress |-> 15,
                        message |-> "Extracting source materials"],
                next |-> 143]
          [] line = 143 ->
               [op |-> "add_event", stage |-> "extract_sources",
                message |-> "done", level |-> "info",
                detail |-> Some(
                    [url_count |-> Len(PollSources.unique_urls),
                     tweet_only_candidates |->
                         PollSources.tweet_only_candidates,
                     work_item_count |-> Len(PollSources.work_items)]),
                next |-> 235]
          [] line = 235 ->
               [op |-> "set_stage", stage |-> "compose_script", next |-> 236]
          [] line = 236 ->
               [op |-> "update",
                kw |-> [progress |-> 70,
                        message |-> "Composing podcast script"],
                next |-> 238]
          [] line = 238 ->
               [op |-> "call", fn |-> "compose_podcast_script", next |-> 244]
          [] line = 241 ->
               [op |-> "add_event", stage |-> "compose_script",
                message |-> "compose_failed_fallback_used",
                level |-> "warning",
                detail |-> Some([reason |-> t.exc[1].msg]), next |-> 242]
          [] line = 242 ->
               [op |-> "call", fn |-> "_fallback_script", next |-> 244]
          [] line = 244 ->
               [op |-> "set_stage", stage |-> "save_episode", next |-> 245]
          [] line = 245 ->
               [op |-> "update",
                kw |-> [progress |-> 80, message |-> "Saving episode draft"],
                next |-> 247]
          [] line = 247 ->
               [op |-> "call", fn |-> "create_episode", next |-> 249]
          [] line = 249 ->
               [op |-> "set_stage", stage |-> "tts", next |-> 250]
          [] line = 250 ->
               [op |-> "update",
                kw |-> [progress |-> 90, message |-> "Generating TTS audio"],
                next |-> 252]
          [] line = 252 ->
               [op |-> "call", fn |-> "synthesize_speech", next |-> 255]
          [] line = 255 ->
               [op |-> "call", fn |-> "finalize_episode", next |-> 256]
          [] line = 256 ->
               [op |-> "call", fn |-> "get_episode", next |-> 258]
          [] line = 258 ->
               [op |-> "update",
                kw |-> done_fields(t.episode, PollLoop.materials,
                                   PollLoop.skipped, Len(PollLiked),
                                   Len(PollSources.unique_urls)),
                next |-> 272]
          [] line = 272 ->
               [op |-> "add_event", stage |-> "completed",
                message |-> "job_done", level |-> "info",
                detail |-> Some([episode_id |-> t.episode_id]), next |-> 0]
          [] line = 329 ->
               [op |-> "add_event", stage |-> StageOrUnknown(jobs, j),
                message |-> "job_failed", level |-> "error",
                detail |-> Some([error |-> t.exc[1].msg]), next |-> 330]
          [] line = 330 ->
               [op |-> "update", kw |-> fail_fields(t.exc[1]), next |-> 0]

\* The exceptions the collaborator called at a line can raise.
PollFailures(fn) ==
    CASE fn = "get_liked_tweets" -> LikedFailures(PollCount)
      [] fn = "compose_podcast_script" -> {ComposeFailure}
      [] fn = "synthesize_speech" -> SynthesisFailures
      [] fn \in {"create_episode", "finalize_episode", "get_episode"} ->
           {StoreFailure}
      [] OTHER -> {}

\* The job ids in the order in which POST /api/jobs/create draws them.
PollOrder == <<"j1", "j2">>

\* run_pipeline of job i has returned.
PollEnded(i) == task[i].pc = 0 /\ task[i].pending = <<>>

\* The event loop runs the pipeline of job j, or starts it: every task
\* created before it has ended.
PollTurn(j) ==
    \A n \in 1..Len(PollOrder) :
        PollOrder[n] = j =>
            \A m \in 1..(n - 1) : PollEnded(PollOrder[m])

\* The loop handing get_job to a worker thread in the middle of a pipeline,
\* as it could if run_pipeline awaited between its writes.
PollDispatchable_during_run(j) == j \in DOMAIN jobs

\* The loop can hand get_job(j) to a worker thread: the pipeline of job j
\* has returned and the loop is inside no pipeline (jobs.py:96-330 without
\* await).  The task of another job that create_task queued (jobs.py:337)
\* and the loop has not started, still before line 98, does not prevent it.
PollDispatchable(j) ==
    /\ j \in DOMAIN jobs
    /\ PollEnded(j)
    /\ \A i \in DOMAIN task : task[i].pc = 98 \/ PollEnded(i)

\* The pipeline is at a statement of the given kind: the loop runs it and
\* the update before the statement has assigned all its keywords.
PollAt(j, op) ==
    /\ PollTurn(j)
    /\ task[j].pc # 0
    /\ task[j].pending = <<>>
    /\ PollLine(j, task[j].pc).op = op

\* The locals of a pipeline task before its first statement.
PollTask ==
    [pc |-> 98, kw |-> <<>>, pending |-> <<>>, script |-> None,
     episode_id |-> 0, episode |-> None, exc |-> None]

PollInit ==
    /\ jobs = JM_create_job([i \in {} |-> NewJobState], "j1")
    /\ task = [i \in {"j1"} |-> PollTask]
    /\ episodes = <<>>
    /\ environ = Some(<<>>)
    /\ submissions = 1
    /\ call = NoCall

\* POST /api/jobs/create (main.py:75-79) for the next id: create_job and
\* launch_pipeline run on the loop, between two pipelines.
PollCreateJob(id) ==
    /\ submissions > 0
    /\ id = PollOrder[Cardinality(DOMAIN jobs) + 1]
    /\ \A i \in DOMAIN task : task[i].pc = 98 \/ PollEnded(i)
    /\ jobs' = JM_create_job(jobs, id)
    /\ task' = [i \in DOMAIN task \cup {id} |->
                   IF i = id THEN PollTask ELSE task[i]]
    /\ submissions' = submissions - 1
    /\ UNCHANGED <<episodes, environ, call>>

\* self.set_stage(job_id, stage), jobs.py:93-94: one setattr.
PollSetStage(j) ==
    LET l == PollLine(j, task[j].pc)
    IN  /\ PollAt(j, "set_stage")
        /\ jobs' = JM_set_stage(jobs, j, l.stage)
        /\ task' = [task EXCEPT ![j].pc = l.next]
        /\ UNCHANGED <<episodes, environ, submissions, call>>

\* self.add_event(job_id, stage, message, ...), jobs.py:84-91: one append.
PollAddEvent(j) ==
    LET l == PollLine(j, task[j].pc)
    IN  /\ PollAt(j, "add_event")
        /\ jobs' = JM_add_event(jobs, j, l.stage, l.message, l.level, l.detail)
        /\ task' = [task EXCEPT ![j].pc = l.next]
        /\ UNCHANGED <<episodes, environ, submissions, call>>

\* self.update(job_id, **kw) up to its loop, jobs.py:77-80.
PollUpdate(j) ==
    LET l == PollLine(j, task[j].pc)
    IN  /\ PollAt(j, "update")
        /\ task' = [task EXCEPT ![j].pc = l.next, ![j].kw = l.kw,
                                ![j].pending = Keywords(l.kw)]
        /\ UNCHANGED <<jobs, episodes, environ, submissions, call>>

\* setattr(job, k, v), jobs.py:81-82: one keyword of the update in progress.
PollSetAttr(j) ==
    LET k == Head(task[j].pending)
    IN  /\ PollTurn(j)
        /\ task[j].pending # <<>>
        /\ jobs' = [jobs EXCEPT ![j] = [@ EXCEPT ![k] = task[j].kw[k]]]
        /\ task' = [task EXCEPT ![j].pending = Tail(@)]
        /\ UNCHANGED <<episodes, environ, submissions, call>>

\* The collaborator called at the line returns (jobs.py:101-102, :238, :242,
\* :247, :252, :255, :256).
PollReturn(j) ==
    LET t == task[j]
        l == PollLine(j, t.pc)
    IN  /\ PollAt(j, "call")
        /\ episodes' =
             CASE l.fn = "create_episode" ->
                    Append(episodes,
                           EpisodeRow(t.script[1],
                                      source_urls_of(PollLoop.materials),
                                      "processing", PollLoop.skipped))
               [] l.fn = "finalize_episode" ->
                    finalize_episode(episodes, t.episode_id,
                                     RelAudioPath(t.episode_id), "done")
               [] OTHER -> episodes
        /\ task' =
             [task EXCEPT
                ![j].pc = l.next,
                ![j].script =
                    CASE l.fn = "compose_podcast_script" -> Some(GeneratedScript)
                      [] l.fn = "_fallback_script" ->
                           Some(fallback_script(PollLoop.materials))
                      [] OTHER -> @,
                ![j].episode_id =
                    IF l.fn = "create_episode" THEN Len(episodes) + 1 ELSE @,
                ![j].episode =
                    IF l.fn = "get_episode"
                    THEN get_episode(episodes, t.episode_id) ELSE @]
        /\ UNCHANGED <<jobs, environ, submissions, call>>

\* The collaborator called at the line raises: the exception of
\* compose_podcast_script is caught at jobs.py:239, every other one at
\* jobs.py:273, where the test of :274-276 fails or finds no static list and
\* control reaches :326.
PollRaise(j) ==
    LET l == PollLine(j, task[j].pc)
    IN  /\ PollAt(j, "call")
        /\ \E e \in PollFailures(l.fn) :
             task' = [task EXCEPT
                        ![j].pc = IF l.fn = "compose_podcast_script"
                                  THEN 241 ELSE 329,
                        ![j].exc = Some(e)]
        /\ UNCHANGED <<jobs, episodes, environ, submissions, call>>

\* get_job(job_id), main.py:82-84: the worker thread starts as_dict for a
\* job of the registry.
PollGetJob(j) ==
    /\ call = NoCall
    /\ PollDispatchable(j)
    /\ call' = [fn |-> "as_dict", job_id |-> j, read |-> 0, out |-> <<>>]
    /\ UNCHANGED <<jobs, task, episodes, environ, submissions>>

\* JobManager.as_dict(job_id), jobs.py:69-75: asdict copies the next field
\* of the job.
PollAsDict(j) ==
    /\ call.fn = "as_dict"
    /\ call.job_id = j
    /\ call.read < Len(DataclassFields)
    /\ LET f == DataclassFields[call.read + 1]
       IN  call' = [call EXCEPT
                      !.read = @ + 1,
                      !.out = [g \in DOMAIN call.out \cup {f} |->
                                 IF g = f THEN jobs[j][f] ELSE call.out[g]]]
    /\ UNCHANGED <<jobs, task, episodes, environ, submissions>>

PollNext ==
    \/ \E id \in JobIds : PollCreateJob(id)
    \/ \E j \in DOMAIN task : PollSetStage(j)
    \/ \E j \in DOMAIN task : PollAddEvent(j)
    \/ \E j \in DOMAIN task : PollUpdate(j)
    \/ \E j \in DOMAIN task : PollSetAttr(j)
    \/ \E j \in DOMAIN task : PollReturn(j)
    \/ \E j \in DOMAIN task : PollRaise(j)
    \/ \E j \in DOMAIN task : PollGetJob(j)
    \/ \E j \in DOMAIN task : PollAsDict(j)

PollSpec == PollInit /\ [][PollNext]_vars

\* ------------------------------------------------- article_fetch: metadata

\* compact_text(..., 200) of article_fetch.py:64 and :227
TitleChars == 200

\* compact_text(..., 800) of article_fetch.py:77
DescriptionChars == 800

\* An HTML document is a sequence of elements.  An element has a tag name, the
\* attributes written before its content ("" when the tag is written bare, as
\* in <title>), and its text: the text between the tags, or the value of the
\* content attribute of a meta element.
Element(el, attrs, text) == [el |-> el, attrs |-> attrs, text |-> text]

\* re.search(r"<title>(.*?)</title>", html, IGNORECASE | DOTALL),
\* article_fetch.py:63: the pattern has a bare <title>, so a title element
\* written with attributes is not a match.
IsTitleMatch(e) == e.el = "title" /\ e.attrs = ""

\* <meta[^>]+name=["']description["'][^>]+content=["'](.*?)["'],
\* article_fetch.py:66-70
IsDescriptionMatch(e) == e.el = "meta" /\ e.attrs = "name=description"

\* <meta[^>]+property=["']og:description["'][^>]+content=["'](.*?)["'],
\* article_fetch.py:72-76
IsOgDescriptionMatch(e) == e.el = "meta" /\ e.attrs = "property=og:description"

\* re.search: the text of the leftmost of the elements of html at the
\* positions matches, or None.
re_search(html, matches) ==
    IF matches = {} THEN None
    ELSE Some(html[CHOOSE i \in matches : \A k \in matches : i <= k].text)

\* The positions of html where the title pattern matches.
TitleMatches(html) == {i \in 1..Len(html) : IsTitleMatch(html[i])}

\* The positions of html where the description pattern matches.
DescriptionMatches(html) == {i \in 1..Len(html) : IsDescriptionMatch(html[i])}

\* The positions of html where the og:description pattern matches.
OgDescriptionMatches(html) ==
    {i \in 1..Len(html) : IsOgDescriptionMatch(html[i])}

\* The placeholder description of article_fetch.py:77, one character here.
DescriptionPlaceholder == <<"(body extraction failed, summary only)">>

\* ArticleResult (models.py:16-24) of a successful strategy.
ArticleResult(url, final_url, title, content, method) ==
    [url |-> url, final_url |-> final_url, title |-> title,
     content |-> content, method |-> method, ok |-> TRUE, error |-> None]

\* article_fetch.py:66-76 with the og:description search made first.
desc_search_og_first(html) ==
    IF re_search(html, OgDescriptionMatches(html)) # None
    THEN re_search(html, OgDescriptionMatches(html))
    ELSE re_search(html, DescriptionMatches(html))

\* desc_match of article_fetch.py:66-76
desc_search(html) ==
    IF re_search(html, DescriptionMatches(html)) # None
    THEN re_search(html, DescriptionMatches(html))
    ELSE re_search(html, OgDescriptionMatches(html))

\* _extract_title_description (article_fetch.py:62-86)
extract_title_description(html, final_url) ==
    LET title_match == re_search(html, TitleMatches(html))
        title == compact_text(IF title_match # None THEN title_match[1]
                              ELSE final_url, TitleChars)
        desc_match == desc_search(html)
        description == compact_text(IF desc_match # None THEN desc_match[1]
                                    ELSE DescriptionPlaceholder,
                                    DescriptionChars)
    IN  ArticleResult(final_url, final_url, title, description,
                      "metadata_fallback")

\* ---------------------------------------------------- article_fetch: chain

\* len(text) < 20, article_fetch.py:171
NativeMinChars == 20

\* len(body) > 200, len(extracted.strip()) > 200 and len(text.strip()) > 200,
\* article_fetch.py:230, :246 and :263
MinBodyChars == 200

\* len(text.strip()) > 300, article_fetch.py:276
ReaderMinChars == 300

\* A text of n characters without whitespace.
XText(n) == [i \in 1..n |-> "x"]

\* X_STATUS_RE.search(url) (article_fetch.py:33 and :116-119): the id of a
\* status URL, or None.
x_status_match(url) ==
    IF Len(url) = 2 /\ url[1] \in StatusPrefixes /\ url[2] # ""
    THEN Some(url[2]) ELSE None

\* One entry of the list of strategies a call has invoked, with the way the
\* strategy ended: "ok", "short" or "raises".
Step(strategy, outcome) == [strategy |-> strategy, outcome |-> outcome]

\* What a run of fetch_article has done so far: the strategies invoked, the
\* page the primary fetch returned, and either the ArticleResult returned or
\* the exception that left the function.
Returned(invoked, page, r) ==
    [invoked |-> invoked, page |-> page, raised |-> None, result |-> Some(r)]

Escaped(invoked, page, e) ==
    [invoked |-> invoked, page |-> page, raised |-> Some(e), result |-> None]

\* Lengths of the texts the X endpoints return, around the gate of :171.
NativeLens == {0, NativeMinChars - 1, NativeMinChars}

\* The tweepy path (article_fetch.py:123-161): tweepy or the token is missing,
\* client.get_tweet raises, or it returns a payload whose full_text
\* (note_text or plain_text, :137-139) is text.
TweepyReplies ==
    {[kind |-> k, text |-> <<>>] : k \in {"unavailable", "raises"}}
    \cup {[kind |-> "data", text |-> XText(n)] : n \in NativeLens}

\* The syndication endpoint (article_fetch.py:164-170): the request raises or
\* the JSON carries a text and a screen name.
SyndicationReplies ==
    {[kind |-> "raises", text |-> <<>>, screen_name |-> ""]}
    \cup {[kind |-> "data", text |-> XText(n), screen_name |-> sn] :
            n \in NativeLens, sn \in {"", "u"}}

\* article_fetch.py:123-161: the steps invoked and the result returned, if any.
tweepy_path(url, reply) ==
    IF reply.kind = "unavailable" THEN [invoked |-> <<>>, ret |-> None]
    ELSE IF reply.kind = "raises"
    THEN [invoked |-> <<Step("x_tweepy", "raises")>>, ret |-> None]
    ELSE IF compact_text(reply.text, 12000) # <<>>
    THEN [invoked |-> <<Step("x_tweepy", "ok")>>,
          ret |-> Some(ArticleResult(url, url, <<"X post">>,
                                     compact_text(reply.text, 12000),
                                     "x_tweepy_v2_note_tweet"))]
    ELSE [invoked |-> <<Step("x_tweepy", "short")>>, ret |-> None]

\* article_fetch.py:164-188
syndication_path(url, reply) ==
    LET text == compact_text(reply.text, 10000)
    IN  IF reply.kind = "raises"
        THEN [invoked |-> <<Step("x_syndication", "raises")>>, ret |-> None]
        ELSE IF Len(text) < NativeMinChars
        THEN [invoked |-> <<Step("x_syndication", "short")>>, ret |-> None]
        ELSE [invoked |-> <<Step("x_syndication", "ok")>>,
              ret |-> Some(ArticleResult(url, url,
                              IF reply.screen_name = "" THEN <<"X post">>
                              ELSE <<"X post @", reply.screen_name>>,
                              text, "x_syndication"))]

\* _fetch_x_status_text (article_fetch.py:115-188) under every reply of the
\* two endpoints: the steps invoked and the result, None when the URL is not
\* a status URL or both paths gave nothing.
fetch_x_status_text(url) ==
    IF x_status_match(url) = None THEN {[invoked |-> <<>>, ret |-> None]}
    ELSE UNION {
           LET t == tweepy_path(url, tr)
           IN  IF t.ret # None THEN {t}
               ELSE {[invoked |-> t.invoked \o syndication_path(url, sr).invoked,
                      ret |-> syndication_path(url, sr).ret] :
                       sr \in SyndicationReplies}
           : tr \in TweepyReplies}

\* JS_REQUIRED_PATTERNS (article_fetch.py:24-31); a phrase is one character
\* of a text, the Japanese phrases are written in Latin letters.
JS_REQUIRED_PATTERNS ==
    {"enable javascript", "javascript is required", "javascript wo yuukou",
     "javascript ga mukou", "please enable javascript",
     "JavaScript wo shiyou dekimasen"}

\* The phrases of this model that contain upper-case letters, each with its
\* lower-case form.
PhraseCasings ==
    {<<"Enable JavaScript", "enable javascript">>,
     <<"ENABLE JAVASCRIPT", "enable javascript">>,
     <<"JAVASCRIPT IS REQUIRED", "javascript is required">>,
     <<"JAVASCRIPT wo yuukou", "javascript wo yuukou">>,
     <<"JAVASCRIPT ga mukou", "javascript ga mukou">>,
     <<"PLEASE ENABLE JAVASCRIPT", "please enable javascript">>,
     <<"JavaScript wo shiyou dekimasen", "javascript wo shiyou dekimasen">>,
     <<"JAVASCRIPT wo shiyou dekimasen", "javascript wo shiyou dekimasen">>}

\* The tag fragments of this model written in upper case.
TagCasings ==
    {<<"<SCRIPT", "<script">>, <<"</SCRIPT>", "</script>">>,
     <<"<STYLE", "<style">>, <<"</STYLE>", "</style>">>}

\* The upper-case letters of this model's texts.
LetterCasings ==
    {<<"S", "s">>, <<"T", "t">>, <<"D", "d">>, <<"O", "o">>}

Casings == PhraseCasings \cup TagCasings \cup LetterCasings

\* str.lower() on one character.
lower(c) ==
    IF \E p \in Casings : p[1] = c
    THEN (CHOOSE p \in Casings : p[1] = c)[2]
    ELSE c

\* _looks_like_js_wall (article_fetch.py:89-91)
looks_like_js_wall(html) ==
    \E i \in 1..Len(html) : \E k \in 1..Len(html[i].text) :
        lower(html[i].text[k]) \in JS_REQUIRED_PATTERNS

\* A URL longer than the title limit.
LongUrl == [i \in 1..(TitleChars + 1) |-> "u"]

\* resp.url or url (article_fetch.py:210): the requested URL, the target of a
\* redirect, or a long URL.
FinalUrls(url) == {url, <<"r">>, LongUrl}

\* resp.text of the primary fetch.
HtmlDocs ==
    { <<>>,
      <<Element("title", "", <<"T">>), Element("p", "", <<"s">>)>>,
      <<Element("title", "", <<" ", "T", "\n">>),
        Element("meta", "name=description", <<"D", " ", " ", "D">>)>>,
      <<Element("p", "", <<"s">>)>>,
      <<Element("title", "", <<"T">>),
        Element("meta", "property=og:description", <<"O">>),
        Element("meta", "name=description", <<"D">>)>>,
      <<Element("meta", "property=og:description", <<"O">>)>>,
      <<Element("title", "lang=en", <<"T">>)>>,
      <<Element("title", "", <<"T">>),
        Element("p", "", <<"Enable JavaScript">>)>> }

\* Lengths of the texts an extractor returns, around the gate of 200.
BodyLens == {MinBodyChars, MinBodyChars + 1}

\* Lengths of the texts the reader proxy returns, around both gates; 0 is
\* also what _fetch_via_jina_reader returns when it is switched off or the
\* request fails (article_fetch.py:98-99 and :110-112).
ReaderLens ==
    {0, MinBodyChars, MinBodyChars + 1, ReaderMinChars, ReaderMinChars + 1}

\* Document(html) with short_title() and summary() (article_fetch.py:226-228):
\* the parser raises, or gives a short title and a summary whose text is
\* body.
ReadabilityReplies ==
    {[kind |-> "raises", short_title |-> <<>>, body |-> <<>>]}
    \cup {[kind |-> "data", short_title |-> st, body |-> XText(n)] :
            st \in {<<>>, <<"T">>}, n \in BodyLens}

\* A text of n characters that is one run of spaces between two letters.
GappedText(n) == [i \in 1..n |-> IF i = 1 \/ i = n THEN "x" ELSE " "]

\* trafilatura.extract (article_fetch.py:245): raises, returns None, or a
\* text, with or without a long run of whitespace.
TrafilaturaReplies ==
    {[kind |-> k, text |-> <<>>] : k \in {"raises", "none"}}
    \cup {[kind |-> "data", text |-> XText(n)] : n \in BodyLens}
    \cup {[kind |-> "data", text |-> GappedText(MinBodyChars + 1)]}

\* e of article_fetch.py:213
TransportErrors == {"timeout"}

\* article_fetch.py:287-288
metadata_stage(url, page, invoked) ==
    {Returned(Append(invoked, Step("metadata", "ok")), Some(page),
              extract_title_description(page.html, page.final_url))}

\* The entry of a reader stage in the list of strategies invoked: it also
\* holds len(text.strip()) of the text _fetch_via_jina_reader returned.
ReaderStep(strategy, outcome, text) ==
    [strategy |-> strategy, outcome |-> outcome, length |-> Len(Strip(text))]

\* The texts _fetch_via_jina_reader returns (article_fetch.py:109 and :112).
ReaderTexts == {compact_text(XText(n), 10000) : n \in ReaderLens}

\* article_fetch.py:274-285 with the bar of the JS-wall call (200).
jina_stage_low_bar(url, page, invoked) ==
    UNION {
      IF Len(Strip(text)) > MinBodyChars
      THEN {Returned(Append(invoked, ReaderStep("jina", "ok", text)),
                     Some(page),
                     ArticleResult(url, page.final_url, page.final_url, text,
                                   "jina_reader_fallback"))}
      ELSE metadata_stage(url, page,
                          Append(invoked, ReaderStep("jina", "short", text)))
      : text \in ReaderTexts}

\* article_fetch.py:274-285, then the metadata fallback.
jina_stage(url, page, invoked) ==
    UNION {
      IF Len(Strip(text)) > ReaderMinChars
      THEN {Returned(Append(invoked, ReaderStep("jina", "ok", text)),
                     Some(page),
                     ArticleResult(url, page.final_url, page.final_url, text,
                                   "jina_reader_fallback"))}
      ELSE metadata_stage(url, page,
                          Append(invoked, ReaderStep("jina", "short", text)))
      : text \in ReaderTexts}

\* article_fetch.py:260-272, then the unconditional reader call.
jina_js_stage(url, page, invoked) ==
    IF looks_like_js_wall(page.html)
    THEN UNION {
      IF Len(Strip(text)) > MinBodyChars
      THEN {Returned(Append(invoked, ReaderStep("jina_js", "ok", text)),
                     Some(page),
                     ArticleResult(url, page.final_url, page.final_url, text,
                                   "jina_reader_js_fallback"))}
      ELSE jina_stage(url, page,
                      Append(invoked, ReaderStep("jina_js", "short", text)))
      : text \in ReaderTexts}
    ELSE jina_stage(url, page, invoked)

\* article_fetch.py:244-258, then the reader stages.
trafilatura_stage(url, page, invoked) ==
    UNION {
      IF reply.kind = "raises"
      THEN jina_js_stage(url, page,
                         Append(invoked, Step("trafilatura", "raises")))
      ELSE IF reply.kind = "data" /\ reply.text # <<>>
              /\ Len(Strip(reply.text)) > MinBodyChars
      THEN {Returned(Append(invoked, Step("trafilatura", "ok")), Some(page),
                     ArticleResult(url, page.final_url, page.final_url,
                                   compact_text(reply.text, 10000),
                                   "trafilatura"))}
      ELSE jina_js_stage(url, page,
                         Append(invoked, Step("trafilatura", "short")))
      : reply \in TrafilaturaReplies}

\* article_fetch.py:225-242 with the return of :232-239 left out: the result
\* is computed and the chain goes on.
readability_stage_no_return(url, page, invoked) ==
    UNION {
      IF reply.kind = "raises"
      THEN trafilatura_stage(url, page,
                             Append(invoked, Step("readability", "raises")))
      ELSE IF Len(compact_text(reply.body, 10000)) > MinBodyChars
      THEN trafilatura_stage(url, page,
                             Append(invoked, Step("readability", "ok")))
      ELSE trafilatura_stage(url, page,
                             Append(invoked, Step("readability", "short")))
      : reply \in ReadabilityReplies}

\* article_fetch.py:225-242, then the trafilatura stage.
readability_stage(url, page, invoked) ==
    UNION {
      IF reply.kind = "raises"
      THEN trafilatura_stage(url, page,
                             Append(invoked, Step("readability", "raises")))
      ELSE LET title == compact_text(IF reply.short_title # <<>>
                                     THEN reply.short_title
                                     ELSE page.final_url, TitleChars)
               body == compact_text(reply.body, 10000)
           IN  IF Len(body) > MinBodyChars
               THEN {Returned(Append(invoked, Step("readability", "ok")),
                              Some(page),
                              ArticleResult(url, page.final_url, title, body,
                                            "readability"))}
               ELSE trafilatura_stage(url, page,
                        Append(invoked, Step("readability", "short")))
      : reply \in ReadabilityReplies}

\* The ArticleResult of article_fetch.py:215-223.
request_failed(url, e) ==
    [url |-> url, final_url |-> url, title |-> url, content |-> <<>>,
     method |-> "request_failed", ok |-> FALSE,
     error |-> Some("request_failed: " \o e)]

\* article_fetch.py:198-223 without the try: the exception of requests.get
\* leaves fetch_article.
primary_fetch_no_try(url, invoked) ==
    {Escaped(invoked, None, e) : e \in TransportErrors}
    \cup UNION {readability_stage(url, [final_url |-> f, html |-> h], invoked) :
                  f \in FinalUrls(url), h \in HtmlDocs}

\* article_fetch.py:198-223, then the strategies that work on the page.
primary_fetch(url, invoked) ==
    {Returned(invoked, None, request_failed(url, e)) : e \in TransportErrors}
    \cup UNION {readability_stage(url, [final_url |-> f, html |-> h], invoked) :
                  f \in FinalUrls(url), h \in HtmlDocs}

\* fetch_article (article_fetch.py:191-288): every run of the call, one for
\* each way the endpoints and the extractors can answer.
fetch_article(url) ==
    UNION {
      IF x.ret # None THEN {Returned(x.invoked, None, x.ret[1])}
      ELSE primary_fetch(url, x.invoked)
      : x \in fetch_x_status_text(url)}

\* ------------------------------------------- article_fetch: _strip_html_tags

\* Markup handed to _strip_html_tags is a sequence of characters in which a
\* tag fragment ("<script", "</script>", "<style", "</style>") counts as one
\* character.  A "<" occurs only at the start of a fragment and a ">" only
\* at its end, so every regex match starts and ends at a character boundary.

\* The character class of r"<script[\\s\\S]*?</script>" (article_fetch.py:55
\* and :56): in a raw string \\s is an escaped backslash followed by the
\* letter s, so the class holds the backslash and the letters s and S.
BlockClass == {"\\", "s", "S"}

\* The end of the match of <open>[class]*?<close> that starts at i, 0 when
\* there is none.
BlockEnd(html, i, open, close) ==
    LET ms == {m \in (i + 1)..Len(html) :
                  /\ lower(html[m]) = close
                  /\ \A k \in (i + 1)..(m - 1) : html[k] \in BlockClass}
    IN  IF lower(html[i]) # open \/ ms = {} THEN 0
        ELSE CHOOSE m \in ms : \A k \in ms : m <= k

\* re.sub(r"<open[\\s\\S]*?</open>", " ", html, flags=re.IGNORECASE) from
\* position i on.
RECURSIVE SubBlocks(_, _, _, _)
SubBlocks(html, i, open, close) ==
    IF i > Len(html) THEN <<>>
    ELSE IF BlockEnd(html, i, open, close) # 0
    THEN <<" ">> \o SubBlocks(html, BlockEnd(html, i, open, close) + 1,
                              open, close)
    ELSE <<html[i]>> \o SubBlocks(html, i + 1, open, close)

\* The characters that start with "<" and those that end with ">".
StartsWithLt(c) == lower(c) \in {"<", "<script", "</script>", "<style", "</style>"}

EndsWithGt(c) == lower(c) \in {">", "</script>", "</style>"}

\* The end of the match of <[^>]+> that starts at i, 0 when there is none:
\* the first character from i on that ends with ">", unless the match would
\* be the two characters "<>".
TagEnd(html, i) ==
    LET ms == {m \in i..Len(html) : EndsWithGt(html[m])}
        m == CHOOSE m \in ms : \A k \in ms : m <= k
    IN  IF ~StartsWithLt(html[i]) \/ ms = {} THEN 0
        ELSE IF html[i] = "<" /\ m = i + 1 /\ html[m] = ">" THEN 0
        ELSE m

\* re.sub(r"<[^>]+>", " ", text) from position i on (article_fetch.py:57).
RECURSIVE SubTags(_, _)
SubTags(html, i) ==
    IF i > Len(html) THEN <<>>
    ELSE IF TagEnd(html, i) # 0
    THEN <<" ">> \o SubTags(html, TagEnd(html, i) + 1)
    ELSE <<html[i]>> \o SubTags(html, i + 1)

\* _strip_html_tags (article_fetch.py:54-59)
strip_html_tags(html) ==
    LET no_script == SubBlocks(html, 1, "<script", "</script>")
        no_style == SubBlocks(no_script, 1, "<style", "</style>")
    IN  Strip(CollapseWs(SubTags(no_style, 1)))

\* ------------------------------------------------------- direct calls

TextAlphabet == {"a", " ", "\n", "\r"}

\* The texts handed to compact_text.
TextInputs == UNION {[1..n -> TextAlphabet] : n \in 0..MaxTextLen}

\* compact_text(value, max_chars) called with max_chars >= 0.
CallCompactText ==
    /\ call = NoCall
    /\ \E value \in TextInputs, max_chars \in 0..MaxTextLen :
         call' = [fn |-> "compact_text", value |-> value,
                  max_chars |-> max_chars,
                  result |-> compact_text(value, max_chars)]
    /\ UNCHANGED <<jobs, task, episodes, environ, submissions>>

\* _extract_title_description(html, final_url)
CallExtractTitleDescription ==
    /\ call = NoCall
    /\ \E html \in HtmlDocs, final_url \in FinalUrls(<<"a">>) :
         call' = [fn |-> "_extract_title_description", html |-> html,
                  final_url |-> final_url,
                  result |-> extract_title_description(html, final_url)]
    /\ UNCHANGED <<jobs, task, episodes, environ, submissions>>

\* fetch_article(url) with the URLs the resolver hands over.
CallFetchArticle ==
    /\ call = NoCall
    /\ \E url \in Urls : \E run \in fetch_article(url) :
         call' = [fn |-> "fetch_article", url |-> url,
                  invoked |-> run.invoked, page |-> run.page,
                  raised |-> run.raised, result |-> run.result]
    /\ UNCHANGED <<jobs, task, episodes, environ, submissions>>

\* The HTML texts handed to _looks_like_js_wall: one phrase, in the casing of
\* the pattern list, in another casing, or a text without any phrase.
JsWallDocs ==
    {<<Element("p", "", <<c>>)>> :
        c \in JS_REQUIRED_PATTERNS \cup {p[1] : p \in PhraseCasings} \cup {"s"}}

\* _looks_like_js_wall(html)
CallLooksLikeJsWall ==
    /\ call = NoCall
    /\ \E html \in JsWallDocs :
         call' = [fn |-> "_looks_like_js_wall", html |-> html,
                  result |-> looks_like_js_wall(html)]
    /\ UNCHANGED <<jobs, task, episodes, environ, submissions>>

\* The longest enumerated markup.
MaxMarkupLen == 4

\* "j" is a character of script or style code, "s" a letter of the class.
MarkupAlphabet == {"<script", "</script>", ">", "j", "s"}

\* The markup handed to _strip_html_tags: every short sequence over the
\* alphabet, a style block, blocks in upper case, and malformed markup.
MarkupInputs ==
    UNION {[1..n -> MarkupAlphabet] : n \in 0..MaxMarkupLen}
    \cup {<<"<style", ">", "j", "</style>">>,
          <<"<SCRIPT", ">", "j", "</SCRIPT>">>,
          <<"<STYLE", "S", "</STYLE>">>,
          <<"<", "a", ">", "a", "<script", ">", "j", "</script>", "a">>,
          <<"<", ">", "a", "<">>}

\* _strip_html_tags(html)
CallStripHtmlTags ==
    /\ call = NoCall
    /\ \E html \in MarkupInputs :
         call' = [fn |-> "_strip_html_tags", html |-> html, raised |-> None,
                  result |-> strip_html_tags(html)]
    /\ UNCHANGED <<jobs, task, episodes, environ, submissions>>

FnNext ==
    \/ CallCompactText
    \/ CallExtractTitleDescription
    \/ CallFetchArticle
    \/ CallLooksLikeJsWall
    \/ CallStripHtmlTags

\* The functions of utils.py and article_fetch.py called on their own, one
\* call in a behaviour.
FnSpec == Init /\ [][FnNext]_vars

\* ------------------------------------------------- JobManager on its own

\* The longest event log the direct calls build.
MaxEvents == 2

\* Keyword arguments of update as run_pipeline passes them: jobs.py:100,
\* :175 for item 1 of 1, and :330 after the RuntimeError of :233.
UpdateKwargs ==
    {start_fields,
     [progress |-> item_progress(1, 1), message |-> "Fetching source 1/1"],
     fail_fields(OtherError("RuntimeError",
                            "No rich source materials could be extracted"))}

\* Arguments of add_event as run_pipeline passes them: jobs.py:99 (no
\* detail) and :202-208 (the warning of a URL item whose fetch failed).
EventArgs ==
    {[stage |-> "fetch_likes", message |-> "start", level |-> "info",
      detail |-> None],
     [stage |-> "fetch_article",
      message |-> "article_failed_tweet_fallback_used", level |-> "warning",
      detail |-> Some([url |-> <<"a">>,
                      reason |-> "request_failed: timeout"])]}

\* job_manager.create_job()
RegCreateJob ==
    /\ \E id \in JobIds \ DOMAIN jobs :
         /\ jobs' = JM_create_job(jobs, id)
         /\ call' = [fn |-> "create_job", job_id |-> id, raised |-> None,
                     result |-> JM_get(JM_create_job(jobs, id), id)]
    /\ UNCHANGED <<task, episodes, environ, submissions>>

\* job_manager.get(job_id)
RegGet ==
    /\ \E id \in JobIds :
         call' = [fn |-> "get", job_id |-> id, raised |-> None,
                  result |-> JM_get(jobs, id)]
    /\ UNCHANGED <<jobs, task, episodes, environ, submissions>>

\* job_manager.update(job_id, **kw)
RegUpdate ==
    /\ \E id \in JobIds, kw \in UpdateKwargs :
         /\ jobs' = JM_update(jobs, id, kw)
         /\ call' = [fn |-> "update", job_id |-> id, raised |-> None,
                     result |-> None]
    /\ UNCHANGED <<task, episodes, environ, submissions>>

\* job_manager.add_event(job_id, stage, message, level, detail)
RegAddEvent ==
    /\ \E id \in JobIds, a \in EventArgs :
         /\ id \in DOMAIN jobs => Len(jobs[id].events) < MaxEvents
         /\ jobs' = JM_add_event(jobs, id, a.stage, a.message, a.level,
                                 a.detail)
         /\ call' = [fn |-> "add_event", job_id |-> id, raised |-> None,
                     result |-> None]
    /\ UNCHANGED <<task, episodes, environ, submissions>>

\* job_manager.set_stage(job_id, stage)
RegSetStage ==
    /\ \E id \in JobIds :
         /\ jobs' = JM_set_stage(jobs, id, "fetch_article")
         /\ call' = [fn |-> "set_stage", job_id |-> id, raised |-> None,
                     result |-> None]
    /\ UNCHANGED <<task, episodes, environ, submissions>>

RegistryNext ==
    \/ RegCreateJob
    \/ RegGet
    \/ RegUpdate
    \/ RegAddEvent
    \/ RegSetStage

\* The methods of JobManager called in any order with any job id.
RegistrySpec == Init /\ [][RegistryNext]_vars

\* ------------------------------------------------------------------ claims

\* e is the XApiAccessError that get_liked_tweets raises for a 402 response.
PaymentRequired(e) == e = liked_tweets_error(402, 5, "")[1]

\* get_liked_tweets raised in the run_pipeline task of job j.
AnyLikedFailure == UNION {LikedFailures(count) : count \in Counts}

LikedFailed(j) == task[j].exc # None /\ task[j].exc[1] \in AnyLikedFailure

\* run_pipeline has returned or was left by an exception.
Ended(j) == j \in DOMAIN task /\ task[j].pc \in {"returned", "crashed"}

Last(s) == s[Len(s)]

\* C1: every job handed to run_pipeline reaches status done or error,
\* whatever the collaborators do: once its run_pipeline task has ended (no
\* step of the job is left to run), the job's status is done or error.
C1_EndedJobIsDoneOrError ==
    \A j \in DOMAIN task :
        Ended(j) => jobs[j].status \in {"done", "error"}

\* C2: status done implies a result and no error; status error implies an
\* error and no result.
C2_TerminalFields ==
    \A j \in DOMAIN jobs :
        /\ jobs[j].status = "done" =>
               jobs[j].result # None /\ jobs[j].error = None
        /\ jobs[j].status = "error" =>
               jobs[j].result = None /\ jobs[j].error # None

C2_Witness ==
    \E j \in DOMAIN jobs :
        /\ jobs[j].status = "done"
        /\ jobs[j].result # None
        /\ Ended(j)

\* C3: no step of a job's pipeline decreases its progress.
C3_ProgressNeverDecreases ==
    [][\A j \in DOMAIN jobs : jobs'[j].progress >= jobs[j].progress]_vars

\* C4: a job's status changes only queued -> running, running -> done and
\* running -> error, and once it is done or error no step changes status,
\* result or error.
C4_StatusTransitions ==
    [][\A j \in DOMAIN jobs :
          /\ \/ jobs'[j].status = jobs[j].status
             \/ <<jobs[j].status, jobs'[j].status>> \in
                    {<<"queued", "running">>, <<"running", "done">>,
                     <<"running", "error">>}
          /\ jobs[j].status \in {"done", "error"} =>
                 /\ jobs'[j].status = jobs[j].status
                 /\ jobs'[j].result = jobs[j].result
                 /\ jobs'[j].error = jobs[j].error]_vars

C4_Witness ==
    \E j \in DOMAIN jobs :
        /\ jobs[j].status = "error"
        /\ Ended(j)
        /\ \E i \in 1..Len(jobs[j].events) :
               jobs[j].events[i].message = "compose_failed_fallback_used"

\* compose_podcast_script was called and raised.
ComposeFailed(j) ==
    \/ /\ task[j].escaped # None
       /\ Last(task[j].calls) = "compose_podcast_script"
    \/ \E i \in 1..Len(jobs[j].events) :
           jobs[j].events[i].message = "compose_failed_fallback_used"

\* No collaborator other than compose_podcast_script raised after the
\* materials were collected.
OnlyComposeFailed(j) ==
    /\ ComposeFailed(j)
    /\ task[j].escaped # None =>
           Last(task[j].calls) = "compose_podcast_script"
    /\ task[j].exc = None \/ PaymentRequired(task[j].exc[1])

\* C5: when compose_podcast_script fails, at least one material exists and
\* every other collaborator succeeds, the job ends done and the persisted
\* script is the template script with its header and footer, on the normal
\* path and on the path entered after a 402 rejection.
C5_ComposeFailureStillDone ==
    \A j \in DOMAIN task :
        (Ended(j) /\ OnlyComposeFailed(j)) =>
            /\ jobs[j].status = "done"
            /\ LET r == jobs[j].result[1]
                   script == r.episode[1].script
               IN  /\ script = fallback_script(r.materials)
                   /\ SubSeq(script, 1, Len(ScriptHeader)) = ScriptHeader
                   /\ Last(script) = ScriptFooter

\* get_liked_tweets was rejected with the 402 XApiAccessError.
Rejected402(j) == task[j].exc # None /\ PaymentRequired(task[j].exc[1])

\* The static fallback list as configured: the parts of FALLBACK_SOURCE_URLS.
ConfiguredList == IF environ = None THEN <<>> ELSE Parts(environ[1])

NotePresent(j) ==
    /\ jobs[j].result # None
    /\ "note" \in DOMAIN jobs[j].result[1]

\* C6: after a 402 rejection of the candidate fetch the job ends done with
\* result.note when a non-empty static fallback list is configured, and
\* ends in error when none is.  A configured list none of whose URLs yields
\* usable content leaves no material, and the job may then end in error as a
\* job without materials does.
C6_FallbackOutcome ==
    \A j \in DOMAIN task :
        (Ended(j) /\ Rejected402(j)) =>
            IF ConfiguredList = <<>>
            THEN jobs[j].status = "error"
            ELSE \/ jobs[j].status = "done" /\ NotePresent(j)
                 \/ task[j].work_materials = <<>> /\ jobs[j].status = "error"

\* C7: a candidate-fetch failure other than the 402 rejection ends the job
\* in error; no URL is fetched and no episode draft is created.
C7_OnlyPaymentRequiredFallsBack ==
    \A j \in DOMAIN task :
        (LikedFailed(j) /\ ~PaymentRequired(task[j].exc[1])) =>
            /\ ~InSeq("fetch_article", task[j].calls)
            /\ ~InSeq("create_episode", task[j].calls)
            /\ episodes = <<>>
            /\ task[j].pc \in {"except", "returned"}
            /\ Ended(j) => jobs[j].status = "error" /\ jobs[j].result = None

C7_Witness ==
    \E j \in DOMAIN task :
        /\ Ended(j)
        /\ task[j].exc # None
        /\ task[j].exc[1].cls = "XApiAccessError"
        /\ task[j].exc[1].status_code = 403
        /\ jobs[j].status = "error"

\* The task is inside the per-item loop of jobs.py:166-230.
InLoop(t) == t.pc \in {"items", "fetch_article"}

\* The step just taken processed URL work item number idx of job j and its
\* fetch gave no usable body.
UrlItemFailed(j) ==
    /\ j \in DOMAIN task
    /\ task[j].pc = "fetch_article"
    /\ task'[j].idx = task[j].idx + 1
    /\ task[j].work_items[task'[j].idx].type = "url"
    /\ ~Usable(task'[j].article[1])

\* C8: a URL item without usable body gives a comment-fallback material and
\* one warning event when it has companion text, and a skipped entry and no
\* material when it has none; the loop goes on either way, and is left only
\* after the last work item.
C8_ItemFailureIsAbsorbed ==
    [][\A j \in DOMAIN task :
          /\ UrlItemFailed(j) =>
                LET item == task[j].work_items[task'[j].idx]
                IN  /\ task'[j].pc = "items"
                    /\ task'[j].work_items = task[j].work_items
                    /\ IF item.tweet_text # <<>>
                       THEN /\ Len(task'[j].materials) = Len(task[j].materials) + 1
                            /\ SubSeq(task'[j].materials, 1, Len(task[j].materials))
                                   = task[j].materials
                            /\ Last(task'[j].materials).kind = "tweet_comment_fallback"
                            /\ Last(task'[j].materials).content = item.tweet_text
                            /\ Last(task'[j].materials).url = item.url
                            /\ task'[j].skipped = task[j].skipped
                            /\ Len(jobs'[j].events) = Len(jobs[j].events) + 1
                            /\ Last(jobs'[j].events).level = "warning"
                       ELSE /\ task'[j].materials = task[j].materials
                            /\ Len(task'[j].skipped) = Len(task[j].skipped) + 1
                            /\ Last(task'[j].skipped).url = item.url
                            /\ jobs'[j].events = jobs[j].events
          /\ (InLoop(task[j]) /\ ~InLoop(task'[j])) =>
                task[j].idx = Len(task[j].work_items)]_vars

C8_Witness ==
    \E j \in DOMAIN task :
        LET t == task[j]
        IN  /\ t.pc = "items"
            /\ t.idx = 2
            /\ t.work_items[1].type = "url"
            /\ t.work_items[2].type = "url"
            /\ Len(t.materials) = 1
            /\ t.materials[1].kind = "tweet_comment_fallback"
            /\ t.materials[1].url = t.work_items[1].url
            /\ Len(t.skipped) = 1
            /\ t.skipped[1].url = t.work_items[2].url

\* Per-item extraction of job j is over and left no material.
ExtractionEmpty(j) ==
    LET t == task[j]
    IN  \/ /\ t.work_items # <<>>
           /\ t.idx = Len(t.work_items)
           /\ t.materials = <<>>
        \/ /\ Rejected402(j)
           /\ t.fallback_urls # <<>>
           /\ t.fb_idx = Len(t.fallback_urls)
           /\ t.work_materials = <<>>

\* C9: with no material after per-item extraction the job ends in error with
\* the failing stage at per-item extraction or earlier, and compose, draft
\* creation and synthesis are never called.
C9_NoMaterialsFailsJob ==
    \A j \in DOMAIN task :
        ExtractionEmpty(j) =>
            /\ ~InSeq("compose_podcast_script", task[j].calls)
            /\ ~InSeq("create_episode", task[j].calls)
            /\ ~InSeq("synthesize_speech", task[j].calls)
            /\ task[j].pc \in {"items", "fb_items", "except", "returned"}
            /\ Ended(j) =>
                   /\ jobs[j].status = "error"
                   /\ jobs[j].failure_stage \in
                          {Some("fetch_likes"), Some("extract_sources"),
                           Some("fetch_article")}

C9_Witness ==
    \E j \in DOMAIN task :
        /\ Ended(j)
        /\ ExtractionEmpty(j)
        /\ Len(task[j].work_items) = 2
        /\ jobs[j].status = "error"
        /\ jobs[j].failure_stage = Some("fetch_article")
        /\ jobs[j].error = Some("No rich source materials could be extracted")

\* Source resolution of job j is over and gave no work item, and the
\* per-item loop has not yet taken its first item.
NoWorkItemsResolved(j) ==
    /\ task[j].pc \notin {"start", "fetch_likes", "extract_sources"}
    /\ task[j].idx = 0
    /\ ~LikedFailed(j)
    /\ resolve_sources(task[j].liked).work_items = <<>>

FirstIndex(s, x) == CHOOSE i \in 1..Len(s) :
                        s[i] = x /\ \A k \in 1..(i - 1) : s[k] # x

\* C10: when source resolution gives no work item, the work items the
\* per-item loop starts with are the configured static list as URL items
\* without companion text, each URL once, ordered by first occurrence; with
\* an empty static list the job ends in error.
C10_StaticListSubstituted ==
    \A j \in DOMAIN task :
        NoWorkItemsResolved(j) =>
            LET w == task[j].work_items
                S == ConfiguredList
            IN  /\ environ # None
                /\ \A i \in 1..Len(w) :
                       /\ w[i] = UrlItem(w[i].url, <<>>, <<>>, "")
                       /\ InSeq(w[i].url, S)
                /\ \A i \in 1..Len(S) : \E k \in 1..Len(w) : w[k].url = S[i]
                /\ \A i \in 1..(Len(w) - 1) :
                       FirstIndex(S, w[i].url) < FirstIndex(S, w[i + 1].url)
                /\ S = <<>> =>
                       /\ task[j].pc \in {"except", "returned"}
                       /\ Ended(j) => jobs[j].status = "error"

C10_Witness ==
    \E j \in DOMAIN task :
        /\ NoWorkItemsResolved(j)
        /\ task[j].liked # <<>>
        /\ Len(ConfiguredList) = 2
        /\ Len(task[j].work_items) = 1
        /\ task[j].pc = "items"
        /\ task[j].idx = 0

\* The work items of job j that source resolution produced from liked posts
\* (the static list is not in use), as they stand when the
\* first item is about to be processed.
ResolvedItems(j) ==
    IF task[j].idx = 0 /\ task[j].fallback_urls = <<>>
    THEN task[j].work_items ELSE <<>>

\* C11: no URL work item produced by source resolution is a status URL that
\* carries the id of the post it was embedded in.
C11_NoSelfReference ==
    \A j \in DOMAIN task :
        \A i \in 1..Len(ResolvedItems(j)) :
            LET item == ResolvedItems(j)[i]
            IN  item.type = "url" =>
                    extract_tweet_id_from_url(item.url) # Some(item.tweet_id)

\* The embedded URLs of a batch in batch order, each with the post it is in.
RECURSIVE Embedded(_, _)
Embedded(liked, p) ==
    IF p > Len(liked) THEN <<>>
    ELSE [i \in 1..Len(liked[p].urls) |-> [url |-> liked[p].urls[i], post |-> p]]
         \o Embedded(liked, p + 1)

\* The first position of URL u in the embedded URLs e.
FirstEmbedded(e, u) ==
    CHOOSE i \in 1..Len(e) : e[i].url = u /\ \A k \in 1..(i - 1) : e[k].url # u

\* C12: across a batch every embedded URL gives exactly one URL work item,
\* the URL items are ordered by first occurrence, and an item's companion
\* text is the (trimmed) text of the first post that embeds its URL.
C12_OneItemPerUrl ==
    \A j \in DOMAIN task :
        LET w == SelectSeq(ResolvedItems(j), LAMBDA x : x.type = "url")
            e == Embedded(task[j].liked, 1)
        IN  ResolvedItems(j) # <<>> =>
              /\ \A i \in 1..Len(e) : \E k \in 1..Len(w) : w[k].url = e[i].url
              /\ \A i \in 1..Len(w) :
                     /\ \E k \in 1..Len(e) : e[k].url = w[i].url
                     /\ \A k \in 1..Len(w) : w[k].url = w[i].url => k = i
                     /\ LET first == task[j].liked[e[FirstEmbedded(e, w[i].url)].post]
                        IN  /\ w[i].tweet_text = Strip(first.text)
                            /\ w[i].tweet_id = first.tweet_id
              /\ \A i \in 1..(Len(w) - 1) :
                     FirstEmbedded(e, w[i].url) < FirstEmbedded(e, w[i + 1].url)

C12_Witness ==
    \E j \in DOMAIN task :
        LET t == task[j]
        IN  /\ t.pc = "items"
            /\ Len(t.liked) = 2
            /\ t.liked[1].urls = <<<<"a">>>>
            /\ t.liked[2].urls = <<StatusUrl("1"), <<"a">>>>
            /\ t.liked[1].text = <<"t">>
            /\ t.liked[2].text = <<" ">>
            /\ Len(t.work_items) = 2
            /\ t.work_items[1].tweet_text = <<"t">>
            /\ t.work_items[2].url = StatusUrl("1")

\* C14: compact_text is idempotent: applied to its own result with the same
\* limit it returns that result.
C14_CompactTextIdempotent ==
    call.fn = "compact_text" =>
        compact_text(call.result, call.max_chars) = call.result

\* The strategies of fetch_article in priority order; the two native paths
\* (tweepy, then syndication) are the first strategy.
StrategyOrder ==
    <<"x_tweepy", "x_syndication", "readability", "trafilatura", "jina_js",
      "jina", "metadata">>

\* The method a result carries when the strategy produced it.
MethodOf(strategy) ==
    CASE strategy = "x_tweepy" -> "x_tweepy_v2_note_tweet"
      [] strategy = "x_syndication" -> "x_syndication"
      [] strategy = "readability" -> "readability"
      [] strategy = "trafilatura" -> "trafilatura"
      [] strategy = "jina_js" -> "jina_reader_js_fallback"
      [] strategy = "jina" -> "jina_reader_fallback"
      [] strategy = "metadata" -> "metadata_fallback"

\* C13: in a call of fetch_article the strategies invoked follow the fixed
\* priority order, and once a strategy clears its gate it is the last one
\* invoked and the result carries its method name.
C13_StrategyOrder ==
    call.fn = "fetch_article" =>
        LET inv == call.invoked
        IN  /\ \A i \in 1..Len(inv) : \A k \in 1..Len(inv) :
                i < k => FirstIndex(StrategyOrder, inv[i].strategy)
                           < FirstIndex(StrategyOrder, inv[k].strategy)
            /\ \A i \in 1..Len(inv) :
                inv[i].outcome = "ok" =>
                    /\ i = Len(inv)
                    /\ call.result # None
                    /\ call.result[1].method = MethodOf(inv[i].strategy)

\* Readability was too short and trafilatura cleared its gate: the reader
\* stages and the metadata fallback were not invoked.
C13_Witness ==
    /\ call.fn = "fetch_article"
    /\ call.invoked = <<Step("readability", "short"), Step("trafilatura", "ok")>>
    /\ call.result # None
    /\ call.result[1].method = "trafilatura"

\* html has a title element, with or without attributes.
HasTitleTag(html) == \E i \in 1..Len(html) : html[i].el = "title"

\* C15: for an HTML document without a <title> tag the title of the
\* metadata-fallback result equals the resolved URL.
C15_TitleIsResolvedUrl ==
    (call.fn = "_extract_title_description" /\ ~HasTitleTag(call.html)) =>
        call.result.title = call.final_url

\* The text of the first element of html with the tag name el and, for a meta
\* element, the attribute attrs; None when there is none.
ElementText(html, el, attrs) ==
    LET hits == {i \in 1..Len(html) :
                    html[i].el = el /\ (el = "meta" => html[i].attrs = attrs)}
    IN  IF hits = {} THEN None
        ELSE Some(html[CHOOSE i \in hits : \A k \in hits : i <= k].text)

\* The primary fetch gave a page and no strategy before the metadata fallback
\* cleared its gate.
FellToMetadata ==
    /\ call.fn = "fetch_article"
    /\ call.page # None
    /\ \A i \in 1..Len(call.invoked) :
          call.invoked[i].outcome = "ok" => call.invoked[i].strategy = "metadata"

\* C16: when the page was fetched and none of strategies 1-5 cleared its
\* gate, the result is a successful metadata_fallback result whose title is
\* the (whitespace-normalised) text of the <title> tag and whose body is the
\* standard description, else the Open-Graph description, else the
\* placeholder.
C16_MetadataFloor ==
    FellToMetadata =>
        LET html == call.page[1].html
            r == call.result[1]
            title == ElementText(html, "title", "")
            std == ElementText(html, "meta", "name=description")
            og == ElementText(html, "meta", "property=og:description")
        IN  /\ call.result # None
            /\ r.method = "metadata_fallback"
            /\ r.ok
            /\ title # None => r.title = Strip(CollapseWs(title[1]))
            /\ r.content =
                 IF std # None THEN Strip(CollapseWs(std[1]))
                 ELSE IF og # None THEN Strip(CollapseWs(og[1]))
                 ELSE DescriptionPlaceholder

\* The primary fetch failed and the native strategy had not succeeded.
PrimaryFetchFailed ==
    /\ call.page = None
    /\ \A i \in 1..Len(call.invoked) : call.invoked[i].outcome # "ok"

\* C17: fetch_article never raises; its result has ok = FALSE exactly when
\* the primary fetch failed, and then the error describes the transport
\* failure; a strategy that raises or comes out short never makes the result
\* a failure.
C17_FailureOnlyFromPrimaryFetch ==
    call.fn = "fetch_article" =>
        /\ call.raised = None
        /\ call.result # None
        /\ ~call.result[1].ok <=> PrimaryFetchFailed
        /\ ~call.result[1].ok =>
              /\ call.result[1].method = "request_failed"
              /\ \E e \in TransportErrors :
                    call.result[1].error = Some("request_failed: " \o e)

\* Both native paths were absorbed (one raised, one was short) and the
\* primary fetch failed.
C17_Witness ==
    /\ call.fn = "fetch_article"
    /\ call.invoked = <<Step("x_tweepy", "raises"), Step("x_syndication", "short")>>
    /\ call.page = None
    /\ call.result # None
    /\ ~call.result[1].ok
    /\ call.result[1].error = Some("request_failed: timeout")

\* C18: update and add_event called with a job id that is not in the registry
\* raise nothing and leave the registry as it was.
C18_UnknownIdIsNoOp ==
    [][(call'.fn \in {"update", "add_event"} /\ call'.job_id \notin DOMAIN jobs)
          => (jobs' = jobs /\ call'.raised = None)]_vars

\* update was called with an id that is not registered while another job is.
C18_Witness ==
    /\ call.fn = "update"
    /\ call.job_id \notin DOMAIN jobs
    /\ DOMAIN jobs # {}

\* s is a prefix of t.
IsPrefix(s, t) == Len(s) <= Len(t) /\ SubSeq(t, 1, Len(s)) = s

\* C19: the event log of a job is append-only: after every step the previous
\* log is a prefix of the current one.
C19_EventLogAppendOnly ==
    [][\A j \in DOMAIN jobs :
          j \in DOMAIN jobs' /\ IsPrefix(jobs[j].events, jobs'[j].events)]_vars

\* A job that has logged the start and the end of the first stage and a
\* skipped item.
C19_Witness ==
    \E j \in DOMAIN jobs :
        /\ Len(jobs[j].events) >= 3
        /\ jobs[j].events[1].stage = "fetch_likes"
        /\ \E i \in 2..Len(jobs[j].events) : jobs[j].events[i].level = "warning"

\* C20: create_job registers a job under an id that was not in the registry,
\* with status queued, progress 0, no result, no error and an empty event
\* log, and changes no existing job; no step removes a job, and get returns
\* the registered job.
C20_CreateJobIsFreshAndKept ==
    [][/\ \A id \in DOMAIN jobs : id \in DOMAIN jobs'
       /\ call'.fn = "create_job" =>
            /\ call'.job_id \notin DOMAIN jobs
            /\ call'.job_id \in DOMAIN jobs'
            /\ call'.result = Some(jobs'[call'.job_id])
            /\ jobs'[call'.job_id].status = "queued"
            /\ jobs'[call'.job_id].progress = 0
            /\ jobs'[call'.job_id].result = None
            /\ jobs'[call'.job_id].error = None
            /\ jobs'[call'.job_id].events = <<>>
            /\ \A id \in DOMAIN jobs : jobs'[id] = jobs[id]
       /\ (call'.fn = "get" /\ call'.job_id \in DOMAIN jobs) =>
            call'.result = Some(jobs[call'.job_id])]_vars

\* A second job was created after the first had been updated and had logged
\* an event.
C20_Witness ==
    /\ call.fn = "create_job"
    /\ DOMAIN jobs = JobIds
    /\ jobs[call.job_id].status = "queued"
    /\ \E id \in DOMAIN jobs :
          /\ id # call.job_id
          /\ jobs[id].status = "running"
          /\ jobs[id].events # <<>>

\* The stage cursor of job j moves to another stage in this step.
CursorMoves(j) ==
    /\ j \in DOMAIN jobs
    /\ jobs[j].failure_stage # None
    /\ jobs'[j].failure_stage # None
    /\ jobs'[j].failure_stage # jobs[j].failure_stage

\* C21: before the stage cursor leaves a stage for the next one, the event
\* log holds a start event of that stage and a done or failure event of that
\* stage that carries a detail.
C21_StageEventsBeforeAdvance ==
    [][\A j \in DOMAIN jobs :
          CursorMoves(j) =>
              LET s == jobs[j].failure_stage[1]
                  ev == jobs'[j].events
              IN  /\ \E i \in 1..Len(ev) :
                        ev[i].stage = s /\ ev[i].message = "start"
                  /\ \E i \in 1..Len(ev) :
                        /\ ev[i].stage = s
                        /\ ev[i].message # "start"
                        /\ "detail" \in DOMAIN ev[i]]_vars

\* The values of the stage cursor in pipeline order (the set_stage calls of
\* run_pipeline).
CursorOrder ==
    <<"fetch_likes", "extract_sources", "fetch_article", "compose_script",
      "save_episode", "tts">>

\* C22: the stage cursor of a running job moves only to the next stage of
\* the fixed order, never back and never past a stage, and a job becomes
\* done only from the last stage.
C22_CursorMovesToNextStage ==
    [][\A j \in DOMAIN jobs :
          /\ CursorMoves(j) =>
                FirstIndex(CursorOrder, jobs'[j].failure_stage[1])
                    = FirstIndex(CursorOrder, jobs[j].failure_stage[1]) + 1
          /\ (jobs[j].status # "done" /\ jobs'[j].status = "done") =>
                jobs[j].failure_stage = Some(Last(CursorOrder))]_vars

\* The handler of job j took the static list after a 402 rejection.
FallbackTaken(j) == Rejected402(j) /\ task[j].fallback_urls # <<>>

\* C23: a job that took the static list after a 402 rejection ends as the
\* normal pipeline does: no exception leaves run_pipeline, a failure is
\* recorded as status error, a compose failure alone still gives a done job,
\* and a done job has left the last stage and logged job_done as its last
\* event.
C23_FallbackBehavesAsNormalPath ==
    \A j \in DOMAIN task :
        (Ended(j) /\ FallbackTaken(j)) =>
            /\ task[j].escaped = None
            /\ jobs[j].status \in {"done", "error"}
            /\ OnlyComposeFailed(j) => jobs[j].status = "done"
            /\ jobs[j].status = "done" =>
                  /\ InSeq("synthesize_speech", task[j].calls)
                  /\ jobs[j].events # <<>>
                  /\ Last(jobs[j].events).message = "job_done"
                  /\ Last(jobs[j].events).stage = "completed"
                  /\ \E i \in 1..Len(jobs[j].events) :
                        jobs[j].events[i].stage = "extract_sources"

\* The number of job_failed events of a log.
JobFailedEvents(ev) ==
    Cardinality({i \in 1..Len(ev) : ev[i].message = "job_failed"})

\* C24: when a job becomes error, its error is the message of the exception
\* that ended it, its failing stage is the stage cursor that was active when
\* the exception was raised (the cursor is not moved after the raise), and
\* the step appends the only job_failed event, of level error and tagged
\* with that stage.
C24_ErrorRecordsMessageAndStage ==
    [][\A j \in DOMAIN task :
          /\ task'[j].exc # task[j].exc =>
                jobs'[j].failure_stage = jobs[j].failure_stage
          /\ (task[j].exc # None /\ jobs'[j].status # "done") =>
                jobs'[j].failure_stage = jobs[j].failure_stage
          /\ (jobs[j].status # "error" /\ jobs'[j].status = "error") =>
                /\ task[j].exc # None
                /\ jobs'[j].error = Some(task[j].exc[1].msg)
                /\ jobs[j].failure_stage # None
                /\ jobs'[j].failure_stage = jobs[j].failure_stage
                /\ Len(jobs'[j].events) = Len(jobs[j].events) + 1
                /\ IsPrefix(jobs[j].events, jobs'[j].events)
                /\ Last(jobs'[j].events).message = "job_failed"
                /\ Last(jobs'[j].events).level = "error"
                /\ Last(jobs'[j].events).stage = jobs[j].failure_stage[1]
                /\ JobFailedEvents(jobs'[j].events) = 1]_vars

\* Speech synthesis failed: the job is in error at stage tts with the
\* message of the synthesis failure and one job_failed event.
C24_Witness ==
    \E j \in DOMAIN jobs :
        /\ jobs[j].status = "error"
        /\ jobs[j].failure_stage = Some("tts")
        /\ jobs[j].error = Some("speech synthesis failed")
        /\ Last(jobs[j].events).message = "job_failed"
        /\ Last(jobs[j].events).stage = "tts"

\* C25: a successful result of the native post strategy, from the tweepy path
\* or from the syndication path, has a body of at least 20 characters.
C25_NativeTextGate ==
    (/\ call.fn = "fetch_article"
     /\ call.result # None
     /\ call.result[1].method \in {"x_tweepy_v2_note_tweet", "x_syndication"})
        => (call.result[1].ok => Len(call.result[1].content) >= 20)

\* C26: a successful result of strategies 2-5 has a body longer than the
\* threshold of its strategy: 200 characters for readability, trafilatura
\* and the JS-wall reader, 300 for the unconditional reader.
C26_BodyExceedsThreshold ==
    (call.fn = "fetch_article" /\ call.result # None /\ call.result[1].ok) =>
        LET r == call.result[1]
        IN  /\ r.method \in {"readability", "trafilatura",
                             "jina_reader_js_fallback"} =>
                  Len(r.content) > 200
            /\ r.method = "jina_reader_fallback" => Len(r.content) > 300

\* C30: the url of the result of fetch_article(u) is u, and its final_url is
\* the URL the primary fetch reached, or u when no page was fetched.
C30_RequestedAndResolvedUrl ==
    (call.fn = "fetch_article" /\ call.result # None) =>
        /\ call.result[1].url = call.url
        /\ call.result[1].final_url =
              IF call.page # None THEN call.page[1].final_url ELSE call.url

\* html holds a phrase of the pattern list in some letter casing.
HoldsPatternInAnyCasing(html) ==
    \E i \in 1..Len(html) : \E k \in 1..Len(html[i].text) :
        \E p \in JS_REQUIRED_PATTERNS : lower(html[i].text[k]) = lower(p)

\* C27: _looks_like_js_wall returns true for every HTML text that holds a
\* phrase of JS_REQUIRED_PATTERNS, whatever the casing of its letters.
C27_JsWallCaseInsensitive ==
    (call.fn = "_looks_like_js_wall" /\ HoldsPatternInAnyCasing(call.html))
        => call.result

\* The strategies before the reader stages did not clear their gates.
ReachedReaders ==
    /\ call.fn = "fetch_article"
    /\ call.page # None
    /\ \A i \in 1..Len(call.invoked) :
          call.invoked[i].strategy \in
              {"x_tweepy", "x_syndication", "readability", "trafilatura"}
          => call.invoked[i].outcome # "ok"

\* C28: when strategies 1-3 fail, the reader is called for a detected JS wall
\* and accepted there exactly when its output is longer than 200, tagged as
\* the JS-wall reader; otherwise the unconditional reader is called and
\* accepted exactly when its output is longer than 300, tagged as the
\* unconditional reader; otherwise the metadata fallback follows.
C28_ReaderAcceptance ==
    ReachedReaders =>
        LET inv == call.invoked
            r == call.result[1]
            js == {i \in 1..Len(inv) : inv[i].strategy = "jina_js"}
            un == {i \in 1..Len(inv) : inv[i].strategy = "jina"}
        IN  /\ (js # {}) <=> looks_like_js_wall(call.page[1].html)
            /\ \A i \in js :
                  /\ inv[i].outcome = "ok" <=> inv[i].length > 200
                  /\ inv[i].outcome = "ok" =>
                        /\ r.method = "jina_reader_js_fallback"
                        /\ r.ok
                        /\ Len(Strip(r.content)) = inv[i].length
                  /\ inv[i].outcome # "ok" =>
                        /\ i < Len(inv)
                        /\ inv[i + 1].strategy = "jina"
            /\ (\A i \in js : inv[i].outcome # "ok") => un # {}
            /\ \A i \in un :
                  /\ inv[i].outcome = "ok" <=> inv[i].length > 300
                  /\ inv[i].outcome = "ok" =>
                        /\ r.method = "jina_reader_fallback"
                        /\ r.ok
                        /\ Len(Strip(r.content)) = inv[i].length
                  /\ inv[i].outcome # "ok" =>
                        /\ i < Len(inv)
                        /\ inv[i + 1].strategy = "metadata"
                        /\ r.method = "metadata_fallback"

\* A detected JS wall whose reader output has 200 characters, then an
\* unconditional reader output of 300 characters, then the metadata fallback.
C28_Witness ==
    /\ ReachedReaders
    /\ \E i \in 1..(Len(call.invoked) - 2) :
          /\ call.invoked[i].strategy = "jina_js"
          /\ call.invoked[i].length = 200
          /\ call.invoked[i + 1].strategy = "jina"
          /\ call.invoked[i + 1].length = 300
          /\ call.invoked[i + 2].strategy = "metadata"
    /\ call.result[1].method = "metadata_fallback"

\* Position k of html lies in the body of a complete block: after the ">"
\* that closes an opening script or style tag and before the closing tag of
\* the same name, with no such closing tag in between.
InBlockBody(html, k) ==
    \E name \in {"script", "style"} :
        \E p \in 1..(k - 2) : \E r \in (k + 1)..Len(html) :
            /\ lower(html[p]) = "<" \o name
            /\ lower(html[r]) = "</" \o name \o ">"
            /\ \A m \in p..k : lower(html[m]) # "</" \o name \o ">"
            /\ \E q \in (p + 1)..(k - 1) : html[q] = ">"

\* C29: _strip_html_tags raises nothing, and when all script and style code
\* of the markup lies in the bodies of complete blocks, no character of that
\* code is in its output.
C29_ScriptAndStyleBodiesRemoved ==
    call.fn = "_strip_html_tags" =>
        /\ call.raised = None
        /\ (\A k \in 1..Len(call.html) :
               call.html[k] = "j" => InBlockBody(call.html, k))
           => \A i \in 1..Len(call.result) : call.result[i] # "j"

\* Post p of the batch is the only one with its id: the work items that carry
\* the id are the items made from this post.
HasOwnId(liked, p) ==
    /\ liked[p].tweet_id # ""
    /\ \A q \in 1..Len(liked) : liked[q].tweet_id = liked[p].tweet_id => q = p

\* C31: a liked post with non-empty (trimmed) text from which source
\* resolution made no URL work item gives exactly one work item of type
\* "tweet".
C31_NativePostPerTextOnlyPost ==
    \A j \in DOMAIN task :
        LET w == ResolvedItems(j)
            liked == task[j].liked
        IN  (task[j].pc = "items" /\ w # <<>>) =>
              \A p \in 1..Len(liked) :
                  (/\ HasOwnId(liked, p)
                   /\ Strip(liked[p].text) # <<>>
                   /\ \A i \in 1..Len(w) :
                          ~(w[i].type = "url" /\ w[i].tweet_id = liked[p].tweet_id))
                  => Cardinality({i \in 1..Len(w) :
                                     /\ w[i].type = "tweet"
                                     /\ w[i].tweet_id = liked[p].tweet_id}) = 1

\* The materials of job j that came from the work items of the liked post
\* with id tweet_id: a material carries the locator of its work item.
MaterialsOfPost(j, tweet_id) ==
    {i \in 1..Len(task[j].materials) :
        \E k \in 1..Len(task[j].work_items) :
            /\ task[j].work_items[k].tweet_id = tweet_id
            /\ task[j].work_items[k].url = task[j].materials[i].url}

\* C32: the materials list of a job holds at most one material per liked
\* post, also when the post embeds several URLs.
C32_OneMaterialPerPost ==
    \A j \in DOMAIN task :
        \A p \in 1..Len(task[j].liked) :
            HasOwnId(task[j].liked, p) =>
                Cardinality(MaterialsOfPost(j, task[j].liked[p].tweet_id)) <= 1

\* synthesize_speech raised in the run_pipeline task of job j.
SynthesisFailed(j) ==
    /\ task[j].calls # <<>>
    /\ Last(task[j].calls) = "synthesize_speech"
    /\ \/ task[j].escaped # None
       \/ task[j].exc # None /\ task[j].exc[1] \in SynthesisFailures

\* C33: after synthesize_speech raised, finalize_episode is never called and
\* the job's result stays null, and once the task has ended the job has
\* status error with the synthesis stage "tts" as its failing stage.
C33_SynthesisFailureIsFatal ==
    \A j \in DOMAIN task :
        SynthesisFailed(j) =>
            /\ ~InSeq("finalize_episode", task[j].calls)
            /\ jobs[j].result = None
            /\ Ended(j) =>
                   /\ jobs[j].status = "error"
                   /\ jobs[j].failure_stage = Some("tts")

\* The steps of job a's pipeline are the steps that move its task.
Moves(a) == task'[a] # task[a]

\* What a job's state and task record hold apart from the row id the store
\* handed out.
RunView(a) ==
    [task |-> [task[a] EXCEPT !.episode_id = 0],
     job |-> [jobs[a] EXCEPT
                !.result = IF @ = None THEN None
                           ELSE Some([@[1] EXCEPT !.episode = @[1].script]),
                !.events = [i \in 1..Len(@) |->
                              [stage |-> @[i].stage, level |-> @[i].level,
                               message |-> @[i].message]]]]

\* C34: with two pipelines interleaved in any order, a step of one job's
\* pipeline changes no field or event of the other job and nothing of the
\* other task, a job's state changes only in steps of its own pipeline, a
\* finished job's episode is its own draft, and two jobs whose tasks saw the
\* same collaborator outcomes have the same state whatever the interleaving.
C34_PipelineTouchesOnlyOwnJob ==
    [][/\ \A a \in DOMAIN jobs :
            /\ ~Moves(a) => jobs'[a] = jobs[a]
            /\ Moves(a) => \A b \in DOMAIN jobs \ {a} :
                               jobs'[b] = jobs[b] /\ task'[b] = task[b]
       /\ \A a \in DOMAIN jobs' : \A b \in DOMAIN jobs' :
            /\ (a # b /\ jobs'[a].status = "done" /\ task'[b].episode_id # 0)
                  => /\ jobs'[a].result[1].episode[1].id = task'[a].episode_id
                     /\ task'[a].episode_id # task'[b].episode_id
            /\ [task'[a] EXCEPT !.episode_id = 0]
                  = [task'[b] EXCEPT !.episode_id = 0]
                  => RunView(a)' = RunView(b)']_vars

\* Job a created its draft after job b did and is done while b is still
\* waiting for its audio.
C34_Witness ==
    \E a \in DOMAIN task : \E b \in DOMAIN task :
        /\ a # b
        /\ task[a].pc = "returned"
        /\ jobs[a].status = "done"
        /\ task[a].episode_id = 2
        /\ task[b].episode_id = 1
        /\ task[b].pc = "tts"
        /\ jobs[b].status = "running"
        /\ jobs[b].failure_stage = Some("tts")

\* C35: while a job is running its progress is 5 during candidate fetch, 15
\* during source resolution, 15 + (45 * idx) \div total after idx of total
\* work items (a value in 15..60 that is 60 after the last item), 70 during
\* compose, 80 while the draft is saved and 90 during synthesis; a done job
\* has progress 100, and a running job has no other progress value.
C35_ProgressPerStage ==
    \A j \in DOMAIN task :
        LET t == task[j]
            progress == jobs[j].progress
            total == Len(t.work_items)
        IN  /\ jobs[j].status = "done" => progress = 100
            /\ jobs[j].status = "running" =>
                   progress \in {5, 70, 80, 90} \cup 15..60
            /\ (jobs[j].status = "running" /\ t.exc = None) =>
                   /\ t.pc = "fetch_likes" => progress = 5
                   /\ t.pc = "extract_sources" => progress = 15
                   /\ t.pc = "items" =>
                          /\ progress \in 15..60
                          /\ t.idx > 0 => progress = 15 + ((45 * t.idx) \div total)
                          /\ (t.idx > 0 /\ t.idx = total) => progress = 60
                   /\ t.pc = "fetch_article" =>
                          progress = 15 + ((45 * (t.idx + 1)) \div total)
                   /\ t.pc = "compose" => progress = 70
                   /\ t.pc = "save_episode" => progress = 80
                   /\ t.pc \in {"tts", "finalize", "get_episode"} => progress = 90

C37_EachItemConsumedOnce ==
    [][\A j \in DOMAIN task :
          LET t == task[j]
              n == task'[j]
              w == t.work_items
          IN  w # <<>> =>
                /\ n.work_items = w
                /\ Len(n.materials) + Len(n.skipped) = n.idx
                /\ (InLoop(t) /\ ~InLoop(n)) =>
                       n.idx = Len(w) /\ n.idx = t.idx
                /\ n.idx = t.idx =>
                       n.materials = t.materials /\ n.skipped = t.skipped
                /\ n.idx # t.idx =>
                       /\ InLoop(t)
                       /\ n.idx = t.idx + 1
                       /\ n.idx <= Len(w)
                       /\ \/ /\ Len(n.materials) = Len(t.materials) + 1
                             /\ IsPrefix(t.materials, n.materials)
                             /\ Last(n.materials).tweet_text = w[n.idx].tweet_text
                             /\ n.skipped = t.skipped
                          \/ /\ Len(n.skipped) = Len(t.skipped) + 1
                             /\ IsPrefix(t.skipped, n.skipped)
                             /\ Last(n.skipped).url = w[n.idx].url
                             /\ n.materials = t.materials
                       /\ n.calls = IF w[n.idx].type = "url"
                                    THEN Append(t.calls, "fetch_article")
                                    ELSE t.calls]_vars

\* A job past the loop whose first item, a URL without companion text, was
\* skipped and whose second item, a text-only post, became a material.
C37_Witness ==
    \E j \in DOMAIN task :
        LET t == task[j]
        IN  /\ t.pc = "compose"
            /\ Len(t.work_items) = 2
            /\ t.work_items[1].type = "url"
            /\ t.work_items[2].type = "tweet"
            /\ Len(t.skipped) = 1
            /\ t.skipped[1].url = t.work_items[1].url
            /\ Len(t.materials) = 1
            /\ t.materials[1].url = t.work_items[2].url
            /\ t.calls = <<"get_liked_tweets", "fetch_article">>

\* The artifact-store and synthesis calls of job j in the order it made them.
StoreCalls(j) ==
    SelectSeq(task[j].calls,
              LAMBDA c : c \in {"create_episode", "synthesize_speech",
                                "finalize_episode", "get_episode"})

\* C38: the store and synthesis calls of a job are made in the order
\* create_episode, synthesize_speech, finalize_episode, get_episode, each at
\* most once; every draft in the store belongs to one job and a job has at
\* most one; a draft has status "processing" until finalize_episode is
\* called for it; finalize_episode is called only when synthesize_speech did
\* not raise; and a job is done only after all four calls, with its own
\* draft finalized to status "done".
C38_StoreCallOrder ==
    \A j \in DOMAIN task :
        LET t == task[j]
            c == StoreCalls(j)
        IN  /\ IsPrefix(c, <<"create_episode", "synthesize_speech",
                             "finalize_episode", "get_episode">>)
            /\ Len(episodes) = Cardinality({i \in DOMAIN task :
                                               task[i].episode_id # 0})
            /\ t.episode_id # 0 =>
                   /\ t.episode_id \in 1..Len(episodes)
                   /\ InSeq("create_episode", c)
                   /\ \A i \in DOMAIN task \ {j} :
                          task[i].episode_id # t.episode_id
                   /\ ~InSeq("finalize_episode", c) =>
                          /\ episodes[t.episode_id].status = "processing"
                          /\ episodes[t.episode_id].audio_path = None
            /\ InSeq("finalize_episode", c) => ~SynthesisFailed(j)
            /\ jobs[j].status = "done" =>
                   /\ Len(c) = 4
                   /\ episodes[t.episode_id].status = "done"
                   /\ jobs[j].result[1].episode[1].id = t.episode_id
                   /\ jobs[j].result[1].episode[1].status = "done"

\* Job a is done with the second draft while the first draft, of job b
\* whose synthesis failed, is still "processing".
C38_Witness ==
    \E a \in DOMAIN task : \E b \in DOMAIN task :
        /\ a # b
        /\ jobs[a].status = "done"
        /\ task[a].episode_id = 2
        /\ Len(StoreCalls(a)) = 4
        /\ task[b].episode_id = 1
        /\ SynthesisFailed(b)
        /\ StoreCalls(b) = <<"create_episode", "synthesize_speech">>
        /\ episodes[1].status = "processing"
        /\ episodes[2].status = "done"

=============================================================================
